---------------------------- MODULE Spec2Model ----------------------------
(***************************************************************************)
(* Beta analyser: the request handler of POST /api/beta/calculate          *)
(* (server/routes.ts), its beta calculator, the peer resolver and the      *)
(* per-peer fan-out.                                                       *)
(*                                                                         *)
(* Numbers.  The program computes in IEEE doubles.  The model computes in  *)
(* exact rational arithmetic: a number is a record [k, n, d] with k =      *)
(* "num" and n/d in lowest terms, d > 0; k = "nonfinite" stands for the    *)
(* NaN / Infinity a division by zero produces; k = "null" is JavaScript's  *)
(* null.  Rounding error of doubles is outside the model.                  *)
(*                                                                         *)
(* Strings.  A ticker is a sequence of tokens: <<"TCS">> is "TCS",         *)
(* <<"TCS", ".NS">> is "TCS.NS".  Concatenation is \o, endsWith looks at   *)
(* the last token, includes('.') holds when a suffix token is present.     *)
(***************************************************************************)
EXTENDS Integers, Sequences, FiniteSets, TLC

-----------------------------------------------------------------------------
(* Bounds of the model *)

\* longest price sequence handed to calculateBetaValue in SpecBeta
MaxLen == 4
\* most symbols the recommendation lookup returns
MaxRecs == 2
\* most symbols the recommendation lookup returns to the older getPeers
MaxTierRecs == 4
\* most items of a short completion in SpecOverlap
MaxItems == 3
\* most peers getPeers has returned in SpecFanOut
MaxFanOut == 2

-----------------------------------------------------------------------------
(* Exact rational numbers, standing for the program's doubles.  An operation
   binds its operands as values (a \in {x}), as an operator of the program
   evaluates each operand once *)

Abs(x) == IF x < 0 THEN -x ELSE x

RECURSIVE GCD(_, _)
GCD(a, b) == IF b = 0 THEN a ELSE GCD(b, a % b)

Null == [k |-> "null", n |-> 0, d |-> 1]
NonFinite == [k |-> "nonfinite", n |-> 0, d |-> 1]

\* the number n/d, d # 0, in lowest terms with a positive denominator
Rat(n, d) ==
    LET g == GCD(Abs(n), Abs(d))
        s == IF d < 0 THEN -1 ELSE 1
    IN  [k |-> "num", n |-> s * (n \div g), d |-> s * (d \div g)]

Num(i) == Rat(i, 1)
Zero == Num(0)

IsNum(x) == x.k = "num"

RAdd(x, y) ==
    CHOOSE r \in { IF IsNum(a) /\ IsNum(b)
                    THEN Rat(a.n * b.d + b.n * a.d, a.d * b.d)
                    ELSE NonFinite : a \in {x}, b \in {y} } : TRUE
RSub(x, y) ==
    CHOOSE r \in { IF IsNum(a) /\ IsNum(b)
                    THEN Rat(a.n * b.d - b.n * a.d, a.d * b.d)
                    ELSE NonFinite : a \in {x}, b \in {y} } : TRUE
RMul(x, y) ==
    CHOOSE r \in { IF IsNum(a) /\ IsNum(b)
                    THEN Rat(a.n * b.n, a.d * b.d)
                    ELSE NonFinite : a \in {x}, b \in {y} } : TRUE
\* JavaScript's / : a zero divisor gives NaN or an Infinity, never an exception
RDiv(x, y) ==
    CHOOSE r \in { IF IsNum(a) /\ IsNum(b) /\ b.n # 0
                    THEN Rat(a.n * b.d, a.d * b.n)
                    ELSE NonFinite : a \in {x}, b \in {y} } : TRUE

\* arr.reduce((a, b) => a + b, 0)
RECURSIVE RSum(_)
RSum(s) ==
    CHOOSE r \in { IF t = <<>> THEN Zero
                    ELSE RAdd(RSum(SubSeq(t, 1, Len(t) - 1)), t[Len(t)]) :
                    t \in {s} } : TRUE

-----------------------------------------------------------------------------
(* calculateBetaValue: beta by regression of returns *)

\* the return of step i (2..Len): (prices[i] - prices[i-1]) / prices[i-1]
PriceReturn(prices, i) ==
    RDiv(Num(prices[i] - prices[i - 1]), Num(prices[i - 1]))

Returns(prices) == [i \in 1..(Len(prices) - 1) |-> PriceReturn(prices, i + 1)]

\* mean of a return series of length n >= 1
Mean(rets) == RDiv(RSum(rets), Num(Len(rets)))

\* covariance += (stockReturns[i] - meanStock) * (marketReturns[i] - meanMarket)
CrossDeviations(xs, ys) ==
    LET mx == Mean(xs)
        my == Mean(ys)
    IN  RSum([i \in 1..Len(xs) |-> RMul(RSub(xs[i], mx), RSub(ys[i], my))])

\* a faulty variant: the variance guard of line 98 is left out
calculateBetaValueNoVarianceGuard(stockPrices, marketPrices) ==
    IF Len(stockPrices) # Len(marketPrices) \/ Len(stockPrices) < 2 THEN Null
    ELSE LET stockReturns == Returns(stockPrices)
             marketReturns == Returns(marketPrices)
         IN  IF Len(stockReturns) < 2 THEN Null
             ELSE RDiv(CrossDeviations(stockReturns, marketReturns),
                       CrossDeviations(marketReturns, marketReturns))

\* a faulty variant: the return is taken over the current price, not the previous one
calculateBetaValueWrongDenominator(stockPrices, marketPrices) ==
    IF Len(stockPrices) # Len(marketPrices) \/ Len(stockPrices) < 2 THEN Null
    ELSE LET ret(p) == [i \in 1..(Len(p) - 1) |->
                            RDiv(Num(p[i + 1] - p[i]), Num(p[i + 1]))]
             stockReturns == ret(stockPrices)
             marketReturns == ret(marketPrices)
             covariance == CrossDeviations(stockReturns, marketReturns)
             varianceMarket == CrossDeviations(marketReturns, marketReturns)
         IN  IF Len(stockReturns) < 2 THEN Null
             ELSE IF varianceMarket = Zero THEN Null
             ELSE RDiv(covariance, varianceMarket)

\* a faulty variant: too few observations give 0, not null
calculateBetaValueZeroWhenShort(stockPrices, marketPrices) ==
    IF Len(stockPrices) # Len(marketPrices) THEN Null
    ELSE IF Len(stockPrices) < 3 THEN Zero
    ELSE LET stockReturns == Returns(stockPrices)
             marketReturns == Returns(marketPrices)
             covariance == CrossDeviations(stockReturns, marketReturns)
             varianceMarket == CrossDeviations(marketReturns, marketReturns)
         IN  IF varianceMarket = Zero THEN Null
             ELSE RDiv(covariance, varianceMarket)

\* a faulty variant: the covariance is divided by the variance of the stock
calculateBetaValueOverStockVariance(stockPrices, marketPrices) ==
    IF Len(stockPrices) # Len(marketPrices) \/ Len(stockPrices) < 2 THEN Null
    ELSE LET stockReturns == Returns(stockPrices)
             marketReturns == Returns(marketPrices)
             covariance == CrossDeviations(stockReturns, marketReturns)
             varianceMarket == CrossDeviations(marketReturns, marketReturns)
             varianceStock == CrossDeviations(stockReturns, stockReturns)
         IN  IF Len(stockReturns) < 2 THEN Null
             ELSE IF varianceMarket = Zero THEN Null
             ELSE RDiv(covariance, varianceStock)

calculateBetaValue(stockPrices, marketPrices) ==
    IF Len(stockPrices) # Len(marketPrices) \/ Len(stockPrices) < 2 THEN Null
    ELSE LET stockReturns == Returns(stockPrices)
             marketReturns == Returns(marketPrices)
             n == Len(stockReturns)
             covariance == CrossDeviations(stockReturns, marketReturns)
             varianceMarket == CrossDeviations(marketReturns, marketReturns)
         IN  IF n < 2 THEN Null
             ELSE IF varianceMarket = Zero THEN Null
             ELSE RDiv(covariance, varianceMarket)

-----------------------------------------------------------------------------
(* Tickers, exchanges and the provider's data *)

NoTicker == <<>>
SuffixTokens == {".NS", ".BO"}

\* ticker.endsWith(sfx)
EndsWith(t, sfx) == Len(t) > 0 /\ t[Len(t)] = sfx
\* peerSymbol.includes('.')
IncludesDot(t) == \E i \in 1..Len(t) : t[i] \in SuffixTokens
\* `${t}${sfx}`
WithSuffix(t, sfx) == t \o <<sfx>>

\* the symbol under which the provider lists a ticker: its upper-case form
UpperCase(t) == [i \in 1..Len(t) |-> IF t[i] = "tcs" THEN "TCS" ELSE t[i]]

\* request bodies: valid ones satisfy calculateBetaSchema (the ticker is any
\* non-empty string, in any case), the other one does not
Requests ==
    { [valid |-> TRUE, ticker |-> <<"TCS">>, exchange |-> "NSE"],
      [valid |-> TRUE, ticker |-> <<"tcs">>, exchange |-> "NSE"],
      [valid |-> TRUE, ticker |-> <<"TCS", ".BO">>, exchange |-> "NSE"],
      [valid |-> TRUE, ticker |-> <<"TCS", ".BO">>, exchange |-> "BSE"],
      [valid |-> FALSE, ticker |-> NoTicker, exchange |-> "NSE"] }

\* a row of yahooFinance.historical: a timestamp in half days and a close that
\* may be null (hasClose = FALSE)
Row(t, c) == [date |-> t, hasClose |-> TRUE, close |-> c]
NullCloseRow(t) == [date |-> t, hasClose |-> FALSE, close |-> 0]
\* the rows of the trading days 1, 2, ... with the given closes
DailyRows(closes) == [i \in 1..Len(closes) |-> Row(2 * i, closes[i])]

\* a row whose date is an Invalid Date: toISOString throws a RangeError on it
InvalidDateRow == [date |-> -1, hasClose |-> TRUE, close |-> 4]

\* d.date.toISOString().split('T')[0]: the UTC day of a timestamp
DateStr(t) == t \div 2

\* the value of fetchHistoricalData: st = "rows" with the rows, or st = "null";
\* "unset" is a variable not assigned yet
Unset == [st |-> "unset", rows |-> <<>>]
NullData == [st |-> "null", rows |-> <<>>]
Rows(rs) == [st |-> "rows", rows |-> rs]

\* what yahooFinance.historical can do: reject, or resolve with rows
Rejected == [threw |-> TRUE, rows |-> <<>>]
Resolved(rs) == [threw |-> FALSE, rows |-> rs]

\* the index: rising, flat, one with a zero, a null and negative closes, two of
\* them on the same day, and one with an invalid date
MarketOutcomes ==
    { Rejected,
      Resolved(<<>>),
      Resolved(DailyRows(<<1, 2, 4, 3, 6>>)),
      Resolved(DailyRows(<<2, 2, 2, 2, 2>>)),
      Resolved(<<Row(2, 1), Row(4, 0), NullCloseRow(6), Row(8, -2), Row(9, -3)>>),
      Resolved(<<Row(2, 1), InvalidDateRow>>) }

\* the subject: full, one with a zero, a null and a negative close, one trading
\* day only, days the index does not have, and one with an invalid date
StockOutcomes ==
    { Rejected,
      Resolved(<<>>),
      Resolved(DailyRows(<<2, 3, 7, 6, 9>>)),
      Resolved(<<Row(2, -1), Row(4, 0), NullCloseRow(6), Row(8, 3)>>),
      Resolved(<<Row(2, 7)>>),
      Resolved(<<Row(20, 7), Row(22, 8), Row(24, 9)>>),
      Resolved(<<Row(2, 3), InvalidDateRow>>) }

\* a peer: nothing, one row, two rows, full, bad closes, other days, and one
\* with an invalid date
PeerOutcomes ==
    { Rejected,
      Resolved(<<Row(2, 7)>>),
      Resolved(<<Row(2, 3), Row(4, 5)>>),
      Resolved(DailyRows(<<1, 3, 2, 2, 5>>)),
      Resolved(<<Row(2, -1), Row(4, 0), NullCloseRow(6), Row(8, 3)>>),
      Resolved(<<Row(20, 7), Row(22, 8), Row(24, 9)>>),
      Resolved(<<Row(2, 3), InvalidDateRow>>) }

\* fetchHistoricalData: the provider's rows, or null when the provider rejects
fetchHistoricalData(outcome) ==
    IF outcome.threw THEN NullData ELSE Rows(outcome.rows)

\* !data || data.length === 0
IsEmpty(data) == data.st # "rows" \/ Len(data.rows) = 0
\* !peerData || peerData.length < 2
IsShort(data) == data.st # "rows" \/ Len(data.rows) < 2

\* yahooFinance.quote(t).catch(() => null): null, or the names of the ticker
NoQuote == [ok |-> FALSE, longName |-> NoTicker, shortName |-> NoTicker]
QuoteOf(t) == [ok |-> TRUE, longName |-> <<"L">> \o t, shortName |-> <<"S">> \o t]
QuoteOutcomes(t) == {NoQuote, QuoteOf(t)}

\* a || b || c on names: the first one that is present
FirstName(a, b, c) == IF a # NoTicker THEN a ELSE IF b # NoTicker THEN b ELSE c

-----------------------------------------------------------------------------
(* Date alignment *)

\* if (d && d.close): the close is present and not 0
Truthy(row) == row.hasClose /\ row.close # 0

NoDateMap == [ds \in {} |-> 0]

\* the loop of line 256 formats the date of the rows that pass its test, the
\* loops of lines 263 and 318 the date of every row
MarketDateThrows(rows) == \E i \in 1..Len(rows) : Truthy(rows[i]) /\ rows[i].date < 0
DateThrows(rows) == \E i \in 1..Len(rows) : rows[i].date < 0

\* a faulty variant: the date map takes only the closes that are > 0
BuildDateMapPositive(rows) ==
    LET good == {i \in 1..Len(rows) : rows[i].hasClose /\ rows[i].close > 0}
        days == {DateStr(rows[i].date) : i \in good}
        last(ds) == CHOOSE i \in good :
                        /\ DateStr(rows[i].date) = ds
                        /\ \A j \in good : DateStr(rows[j].date) = ds => j <= i
    IN  [ds \in days |-> rows[last(ds)].close]

\* marketData.forEach(d => { if (d && d.close) dateMap.set(day, d.close) }):
\* a later row of the same day overwrites an earlier one
BuildDateMap(rows) ==
    LET good == {i \in 1..Len(rows) : Truthy(rows[i])}
        days == {DateStr(rows[i].date) : i \in good}
        last(ds) == CHOOSE i \in good :
                        /\ DateStr(rows[i].date) = ds
                        /\ \A j \in good : DateStr(rows[j].date) = ds => j <= i
    IN  [ds \in days |-> rows[last(ds)].close]

\* a faulty variant: a row is aligned whenever the index has its day
AlignedRowsAnyClose(rows, dm) ==
    SelectSeq(rows, LAMBDA r : DateStr(r.date) \in DOMAIN dm)

\* the rows that pass `if (marketPrice && d.close)`, in order
AlignedRows(rows, dm) ==
    SelectSeq(rows, LAMBDA r : /\ DateStr(r.date) \in DOMAIN dm
                               /\ dm[DateStr(r.date)] # 0
                               /\ Truthy(r))

\* alignedStockPrices / pPrices
AlignedPrices(rows, dm) ==
    LET al == AlignedRows(rows, dm) IN [i \in 1..Len(al) |-> al[i].close]
\* alignedMarketPrices / mPrices
AlignedMarket(rows, dm) ==
    LET al == AlignedRows(rows, dm) IN [i \in 1..Len(al) |-> dm[DateStr(al[i].date)]]

-----------------------------------------------------------------------------
(* The peer resolver's data and pure helpers *)

\* what the provider and the text services hold for a symbol, by its first token
DescriptionOf(sym) == <<"about">> \o <<UpperCase(sym)[1]>>
\* the number of characters of a longBusinessSummary
DescriptionLength(desc) == IF desc[2] = "LT" THEN 120 ELSE 600
SectorOf(sym) == "Technology"
IndustryOf(sym) == IF sym[1] = "WIPRO" THEN "Hardware" ELSE "IT Services"
MarketCapOf(sym) == IF sym[1] = "WIPRO" THEN 0 ELSE 7

\* the embedding of a description: vectors whose norms are whole numbers
EmbeddingOf(desc) ==
    IF desc[2] \in {"TCS", "LT", "MPHASIS"} THEN <<3, 4>>
    ELSE IF desc[2] = "INFY" THEN <<4, 3>>
    ELSE IF desc[2] = "HCL" THEN <<-3, -4>>
    ELSE <<-4, 3>>

\* the keywords the completion returns for a description
KeywordsOf(desc) ==
    IF desc[2] = "TCS" THEN <<"it", "cloud", "consulting", "software", "services">>
    ELSE IF desc[2] = "INFY" THEN <<"it", "cloud", "outsourcing", "software", "digital">>
    ELSE IF desc[2] \in {"HCL", "MPHASIS"}
    THEN <<"it", "cloud", "consulting", "software", "digital">>
    ELSE <<"it", "hardware", "bpo", "energy", "retail">>

\* Math.sqrt on the squares the embeddings produce
Sqrt(m) == CHOOSE r \in 0..m : r * r = m

RECURSIVE SumInts(_)
SumInts(s) == IF s = <<>> THEN 0 ELSE SumInts(SubSeq(s, 1, Len(s) - 1)) + s[Len(s)]

cosineSimilarity(vecA, vecB) ==
    LET dotProduct == SumInts([i \in 1..Len(vecA) |-> vecA[i] * vecB[i]])
        mA == SumInts([i \in 1..Len(vecA) |-> vecA[i] * vecA[i]])
        mB == SumInts([i \in 1..Len(vecA) |-> vecB[i] * vecB[i]])
    IN  RDiv(Num(dotProduct), Num(Sqrt(mA) * Sqrt(mB)))

Slice(s, n) == SubSeq(s, 1, IF Len(s) < n THEN Len(s) ELSE n)

\* k.trim().toLowerCase() on the items a completion is made of
TrimLower(k) == IF k = " IT" THEN "it" ELSE IF k = "Cloud " THEN "cloud" ELSE k

\* line 54: content.split(",").map(k => k.trim().toLowerCase()).slice(0, 5), on
\* the items between the commas of the content
KeywordsOfContent(items) == Slice([i \in 1..Len(items) |-> TrimLower(items[i])], 5)

\* lines 37-59 on a completion: its keywords, or [] when the call fails
KeywordsOfCompletion(completion) ==
    IF completion.ok THEN KeywordsOfContent(completion.items) ELSE <<>>

\* generateKeywords: the keywords, or [] when the completion call fails
generateKeywords(text, callOk) == IF callOk THEN KeywordsOf(text) ELSE <<>>

calculateKeywordOverlap(keywordsA, keywordsB) ==
    IF Len(keywordsA) = 0 \/ Len(keywordsB) = 0 THEN Zero
    ELSE LET setA == {keywordsA[i] : i \in 1..Len(keywordsA)}
             intersection == SelectSeq(keywordsB, LAMBDA k : k \in setA)
         IN  RMul(RDiv(Num(Len(intersection)), Num(5)), Num(100))

\* Math.round of a finite number: the nearest integer, halves rounded up
Round(x) == (2 * x.n + x.d) \div (2 * x.d)

\* a faulty variant: a blend of the keyword overlap alone, with a floor
SimilarityScoreKeywordBlend(baseEmbedding, baseKeywords, peerEmbedding, peerKeywords) ==
    LET keywordOverlap == calculateKeywordOverlap(baseKeywords, peerKeywords)
    IN  IF keywordOverlap = Zero THEN 10
        ELSE Round(RAdd(Num(30), RMul(keywordOverlap, Rat(7, 10))))

\* a faulty variant: the keyword overlap is left out of the score
SimilarityScoreEmbeddingOnly(baseEmbedding, baseKeywords, peerEmbedding, peerKeywords) ==
    LET embeddingSimilarity == cosineSimilarity(baseEmbedding, peerEmbedding)
        normalizedEmbeddingSim == RDiv(RAdd(embeddingSimilarity, Num(1)), Num(2))
    IN  Round(RMul(normalizedEmbeddingSim, Num(70)))

\* a faulty variant: the embedding similarity is not brought into 0..1
SimilarityScoreNoNormalize(baseEmbedding, baseKeywords, peerEmbedding, peerKeywords) ==
    LET embeddingSimilarity == cosineSimilarity(baseEmbedding, peerEmbedding)
        keywordOverlap == calculateKeywordOverlap(baseKeywords, peerKeywords)
    IN  Round(RAdd(RMul(embeddingSimilarity, Num(70)),
                   RMul(keywordOverlap, Rat(3, 10))))

\* lines 163-173: the similarity score of a peer
SimilarityScore(baseEmbedding, baseKeywords, peerEmbedding, peerKeywords) ==
    LET embeddingSimilarity == cosineSimilarity(baseEmbedding, peerEmbedding)
        keywordOverlap == calculateKeywordOverlap(baseKeywords, peerKeywords)
        normalizedEmbeddingSim == RDiv(RAdd(embeddingSimilarity, Num(1)), Num(2))
        combinedSimilarity == RAdd(RMul(normalizedEmbeddingSim, Num(70)),
                                   RMul(keywordOverlap, Rat(3, 10)))
    IN  Round(combinedSimilarity)

\* recSummaries.map(...).filter(...): the recommended symbols whose profile came
\* with a description, the subject itself left out.  summaries[i] is "null",
\* "noDescription" or "ok"
PeerCandidates(ticker, recSymbols, summaries) ==
    LET keep == {i \in 1..Len(recSymbols) :
                    summaries[i] = "ok" /\ recSymbols[i] # ticker}
        idx == SelectSeq([i \in 1..Len(recSymbols) |-> i], LAMBDA i : i \in keep)
    IN  [j \in 1..Len(idx) |->
            [slug |-> recSymbols[idx[j]],
             description |-> DescriptionOf(recSymbols[idx[j]]),
             sector |-> SectorOf(recSymbols[idx[j]]),
             industry |-> IndustryOf(recSymbols[idx[j]]),
             marketCap |-> MarketCapOf(recSymbols[idx[j]])]]

\* a faulty variant: a sort that puts the later of two equal scores first
RECURSIVE SortByScoreTiesReversed(_)
SortByScoreTiesReversed(ps) ==
    IF Len(ps) <= 1 THEN ps
    ELSE LET rest == SortByScoreTiesReversed(SubSeq(ps, 1, Len(ps) - 1))
             x == ps[Len(ps)]
             before == SelectSeq(rest, LAMBDA p : p.similarityScore > x.similarityScore)
             after == SelectSeq(rest, LAMBDA p : p.similarityScore <= x.similarityScore)
         IN  before \o <<x>> \o after

\* Array.prototype.sort with (a, b) => b.similarityScore - a.similarityScore:
\* a stable sort, highest score first
RECURSIVE SortByScore(_)
SortByScore(ps) ==
    IF Len(ps) <= 1 THEN ps
    ELSE LET rest == SortByScore(SubSeq(ps, 1, Len(ps) - 1))
             x == ps[Len(ps)]
             before == SelectSeq(rest, LAMBDA p : p.similarityScore >= x.similarityScore)
             after == SelectSeq(rest, LAMBDA p : p.similarityScore < x.similarityScore)
         IN  before \o <<x>> \o after

\* finalPeers.slice(0, 5)
TopPeers == 5

\* a faulty variant: without the try/catch of lines 157-179 one failed embedding
\* call rejects the Promise.all of line 156, and the catch of line 193 returns []
ScoredPeersAllOrNothing(cands, baseEmbedding, baseKeywords, embOk, kwOk) ==
    IF \E j \in 1..Len(cands) : ~embOk[j] THEN <<>>
    ELSE LET scored == [m \in 1..Len(cands) |->
                LET c == cands[m]
                    peerKeywords == generateKeywords(c.description, kwOk[m])
                IN  [slug |-> c.slug,
                     sector |-> <<c.sector, ">", c.industry>>,
                     marketCap |-> c.marketCap,
                     similarityScore |->
                         SimilarityScore(baseEmbedding, baseKeywords,
                                         EmbeddingOf(c.description), peerKeywords),
                     keywords |-> peerKeywords]]
         IN  Slice(SortByScore(scored), TopPeers)

\* lines 156-192: score the candidates, drop the ones whose embedding call
\* failed, sort, cut, and shape the entries.  embOk[j], kwOk[j] tell whether the
\* calls for candidate j succeeded
ScoredPeers(cands, baseEmbedding, baseKeywords, embOk, kwOk) ==
    LET okIdx == SelectSeq([j \in 1..Len(cands) |-> j], LAMBDA j : embOk[j])
        scored == [m \in 1..Len(okIdx) |->
            LET c == cands[okIdx[m]]
                peerKeywords == generateKeywords(c.description, kwOk[okIdx[m]])
            IN  [slug |-> c.slug,
                 sector |-> <<c.sector, ">", c.industry>>,
                 marketCap |-> c.marketCap,
                 similarityScore |->
                     SimilarityScore(baseEmbedding, baseKeywords,
                                     EmbeddingOf(c.description), peerKeywords),
                 keywords |-> peerKeywords]]
    IN  Slice(SortByScore(scored), TopPeers)

-----------------------------------------------------------------------------
(* The older getPeers (lines 434-491): recommended symbols filtered by industry, *)
(* then by sector                                                              *)

\* a property the provider left out: `undefined` in the code
Undefined == "undefined"
\* p.industry && ..., p.sector && ...: undefined and "" are falsy
TruthyString(x) == x # Undefined /\ x # ""

\* what quoteSummary gave for a symbol: found is FALSE when the lookup failed
\* (.catch(() => null), lines 441 and 457)
NoSummary == [found |-> FALSE, sector |-> Undefined, industry |-> Undefined, marketCap |-> 0]
NoAssetProfile == [found |-> TRUE, sector |-> Undefined, industry |-> Undefined, marketCap |-> 0]
Profile(sector, industry) ==
    [found |-> TRUE, sector |-> sector, industry |-> industry, marketCap |-> 7]

\* lines 460-470: the recommended symbols whose lookup gave a summary, the
\* symbol asked about left out
ValidPeers(ticker, recSymbols, recSummaries) ==
    LET keep == {i \in 1..Len(recSymbols) :
                    recSummaries[i].found /\ recSymbols[i] # ticker}
        idx == SelectSeq([i \in 1..Len(recSymbols) |-> i], LAMBDA i : i \in keep)
    IN  [j \in 1..Len(idx) |->
            [slug |-> recSymbols[idx[j]],
             sector |-> recSummaries[idx[j]].sector,
             industry |-> recSummaries[idx[j]].industry,
             marketCap |-> recSummaries[idx[j]].marketCap]]

\* line 473
IndustryMatches(validPeers, targetIndustry) ==
    SelectSeq(validPeers, LAMBDA p : TruthyString(p.industry) /\ p.industry = targetIndustry)
\* line 477
SectorMatches(validPeers, targetSector) ==
    SelectSeq(validPeers, LAMBDA p : TruthyString(p.sector) /\ p.sector = targetSector)

\* a faulty variant: the sector filter replaces an industry filter that gave
\* fewer than three
FilterTiersBelowThree(validPeers, targetSector, targetIndustry) ==
    LET byIndustry == IndustryMatches(validPeers, targetIndustry)
    IN  IF Len(byIndustry) < 3
        THEN [tiers |-> <<"industry", "sector">>,
              filtered |-> SectorMatches(validPeers, targetSector)]
        ELSE [tiers |-> <<"industry">>, filtered |-> byIndustry]

\* lines 472-478: the filters applied, in order, and what is left
FilterTiers(validPeers, targetSector, targetIndustry) ==
    LET byIndustry == IndustryMatches(validPeers, targetIndustry)
    IN  IF Len(byIndustry) = 0
        THEN [tiers |-> <<"industry", "sector">>,
              filtered |-> SectorMatches(validPeers, targetSector)]
        ELSE [tiers |-> <<"industry">>, filtered |-> byIndustry]

\* lines 482-486
OrUnknown(x) == IF TruthyString(x) THEN x ELSE "Unknown"
FilteredPeers(filtered) ==
    LET cut == Slice(filtered, TopPeers)
    IN  [m \in 1..Len(cut) |->
            [slug |-> cut[m].slug,
             sector |-> <<OrUnknown(cut[m].sector), ">", OrUnknown(cut[m].industry)>>,
             marketCap |-> cut[m].marketCap]]

-----------------------------------------------------------------------------
(* The state of one request to POST /api/beta/calculate *)

VARIABLES
    pc,                  \* where the handler is suspended
    req,                 \* the parsed request body
    marketTicker,        \* "^NSEI" or "^BSESN"
    suffix,              \* ".NS" or ".BO"; rewritten when the alternate resolves
    fullTicker,          \* the subject with the exchange suffix
    pending,             \* calls of the first Promise.all still in flight
    marketData,          \* result of the index fetch
    stockData,           \* result of the subject fetch in use
    companyName,
    marketFetches,       \* tickers handed to fetchHistoricalData for the index
    subjectFetches,      \* the subject's fetchHistoricalData calls: ticker and result
    dateMap,             \* day -> index close
    alignedStockPrices,
    alignedMarketPrices,
    beta,                \* the subject's beta
    gp,                  \* the running getPeers call
    peerSymbols,         \* what getPeers returned
    branch,              \* the per-peer async callbacks of the fan-out
    finalPeers,
    stored,              \* rows of the searches table written by this request
    responses,           \* responses sent on res
    stages,              \* pipeline stages entered so far, in order
    betaIn,              \* SpecBeta: the two price sequences handed to the calculator
    betaOut,             \* SpecBeta: what calculateBetaValue returned
    scoreIn,             \* SpecScore: the candidates handed to the scoring
    scoreOut,            \* SpecScore: the peers the scoring returned
    calls,               \* SpecPeers: the outcomes of getPeers' external calls
    tiered,              \* SpecTiers: the older getPeers (lines 434-491), its locals
    kw                   \* SpecOverlap: two completions, their keywords, the overlap

reqVars == <<req, marketTicker, fullTicker>>
fetchVars == <<pending, marketData, stockData, marketFetches, subjectFetches>>
subjectVars == <<dateMap, alignedStockPrices, alignedMarketPrices, beta>>
peerVars == <<gp, peerSymbols, branch, finalPeers>>
betaVars == <<betaIn, betaOut>>
scoreVars == <<scoreIn, scoreOut>>
fnVars == <<betaVars, scoreVars, tiered, kw>>
callVars == <<fnVars, calls>>
vars == <<pc, reqVars, suffix, companyName, fetchVars, subjectVars, peerVars,
          stored, responses, stages, callVars>>

NoRequest == [valid |-> FALSE, ticker |-> NoTicker, exchange |-> ""]
NoGetPeers == [pc |-> "none", baseEmbedding |-> <<>>, baseKeywords |-> <<>>,
               recSymbols |-> <<>>, peerCandidates |-> <<>>]
NoBetaIn == [stock |-> <<>>, market |-> <<>>]
NotCalled == [k |-> "unset", n |-> 0, d |-> 1]
NoCalls == [profile |-> "none", baseEmbedding |-> "none", baseKeywords |-> "none",
            recommendations |-> "none", recSymbols |-> <<>>, summaries |-> <<>>,
            candidates |-> <<>>, embOk |-> <<>>, kwOk |-> <<>>, scored |-> FALSE,
            settled |-> <<>>]
NoCompletion == [ok |-> FALSE, items |-> <<>>]
NoKw == [pc |-> "none", a |-> NoCompletion, b |-> NoCompletion,
         keywordsA |-> <<>>, keywordsB |-> <<>>, overlap |-> NotCalled]
NoTiered == [pc |-> "none", targetSector |-> Undefined, targetIndustry |-> Undefined,
             recSymbols |-> <<>>, validPeers |-> <<>>, tiers |-> <<>>, peers |-> <<>>]
NoScoreIn == [cands |-> <<>>, embOk |-> <<>>, kwOk |-> TRUE]
NotScored == [called |-> FALSE, peers |-> <<>>]

\* the state before the request arrives
Idle ==
    /\ pc = "idle"
    /\ req = NoRequest
    /\ marketTicker = NoTicker
    /\ suffix = ""
    /\ fullTicker = NoTicker
    /\ pending = {}
    /\ marketData = Unset
    /\ stockData = Unset
    /\ companyName = NoTicker
    /\ marketFetches = <<>>
    /\ subjectFetches = <<>>
    /\ dateMap = NoDateMap
    /\ alignedStockPrices = <<>>
    /\ alignedMarketPrices = <<>>
    /\ beta = NotCalled
    /\ gp = NoGetPeers
    /\ peerSymbols = <<>>
    /\ branch = <<>>
    /\ finalPeers = <<>>
    /\ stored = <<>>
    /\ responses = <<>>
    /\ stages = <<>>

Init ==
    /\ Idle
    /\ betaIn = NoBetaIn
    /\ betaOut = NotCalled
    /\ scoreIn = NoScoreIn
    /\ scoreOut = NotScored
    /\ calls = NoCalls
    /\ tiered = NoTiered
    /\ kw = NoKw

\* an entry of the log of fetches: the ticker asked for, and whether rows came
Fetch(t) == [ticker |-> t, result |-> "pending"]
\* the last fetch of a log has settled with data
Settle(log, data) ==
    [log EXCEPT ![Len(log)].result = IF IsEmpty(data) THEN "nodata" ELSE "data"]

-----------------------------------------------------------------------------
(* Responses *)

ErrorResponse(status, message) ==
    [status |-> status, message |-> message, ticker |-> NoTicker, name |-> NoTicker,
     marketIndex |-> "", beta |-> Null, peers |-> <<>>]

ValidationError == ErrorResponse(400, "validation")
SubjectDataMissing == ErrorResponse(404, "Failed to fetch data")
NoMarketData == ErrorResponse(500, "Failed to fetch market index data")
InsufficientData == ErrorResponse(400, "Insufficient data points to calculate beta")
InternalError == ErrorResponse(500, "Internal server error")

\* a faulty variant: the index is named, and the ticker suffixed, after the
\* suffix the subject was resolved with
SuccessResponseOfResolvedSuffix ==
    [status |-> 200, message |-> "",
     ticker |-> IF EndsWith(req.ticker, suffix) THEN req.ticker
                ELSE WithSuffix(req.ticker, suffix),
     name |-> companyName,
     marketIndex |-> IF suffix = ".NS" THEN "NIFTY 50" ELSE "BSE SENSEX",
     beta |-> beta, peers |-> finalPeers]

\* lines 352-360
SuccessResponse ==
    [status |-> 200, message |-> "", ticker |-> fullTicker, name |-> companyName,
     marketIndex |-> IF marketTicker = <<"^NSEI">> THEN "NIFTY 50" ELSE "BSE SENSEX",
     beta |-> beta, peers |-> finalPeers]

\* a faulty variant: the response is sent without the `return`, the handler
\* stays where it was
RespondWithoutReturn(r) ==
    /\ responses' = Append(responses, r)
    /\ pc' = IF Len(responses) < 2 THEN pc ELSE "done"

\* res.status(..).json(..) followed by the handler's return
Respond(r) ==
    /\ responses' = Append(responses, r)
    /\ pc' = "done"

-----------------------------------------------------------------------------
(* The handler up to the subject's beta *)

AltSuffix(sfx) == IF sfx = ".NS" THEN ".BO" ELSE ".NS"

\* a faulty variant: the index is fetched and awaited before the subject's fetch
\* is started, and the handler goes on without the subject's rows
ReceiveIndexFirst ==
    /\ pc = "idle"
    /\ \E r \in Requests :
        /\ req' = r
        /\ IF ~r.valid
           THEN /\ Respond(ValidationError)
                /\ UNCHANGED <<marketTicker, suffix, fullTicker, fetchVars, stages>>
           ELSE LET sfx == IF r.exchange = "NSE" THEN ".NS" ELSE ".BO"
                    full == IF EndsWith(r.ticker, sfx) THEN r.ticker
                            ELSE WithSuffix(r.ticker, sfx)
                    index == IF r.exchange = "NSE" THEN <<"^NSEI">> ELSE <<"^BSESN">>
                IN  /\ marketTicker' = index
                    /\ suffix' = sfx
                    /\ fullTicker' = full
                    /\ pending' = {"market", "quote"}
                    /\ marketFetches' = Append(marketFetches, index)
                    /\ subjectFetches' = Append(subjectFetches, Fetch(full))
                    /\ stages' = Append(stages, "FetchSubject")
                    /\ pc' = "awaitInitial"
                    /\ UNCHANGED <<marketData, stockData, responses>>
    /\ UNCHANGED <<companyName, subjectVars, peerVars, stored, callVars>>

\* lines 206-224: parse the body, pick index and suffix, start the three calls
Receive ==
    /\ pc = "idle"
    /\ \E r \in Requests :
        /\ req' = r
        /\ IF ~r.valid
           THEN /\ Respond(ValidationError)
                /\ UNCHANGED <<marketTicker, suffix, fullTicker, fetchVars, stages>>
           ELSE LET sfx == IF r.exchange = "NSE" THEN ".NS" ELSE ".BO"
                    full == IF EndsWith(r.ticker, sfx) THEN r.ticker
                            ELSE WithSuffix(r.ticker, sfx)
                    index == IF r.exchange = "NSE" THEN <<"^NSEI">> ELSE <<"^BSESN">>
                IN  /\ marketTicker' = index
                    /\ suffix' = sfx
                    /\ fullTicker' = full
                    /\ pending' = {"market", "stock", "quote"}
                    /\ marketFetches' = Append(marketFetches, index)
                    /\ subjectFetches' = Append(subjectFetches, Fetch(full))
                    /\ stages' = Append(stages, "FetchSubject")
                    /\ pc' = "awaitInitial"
                    /\ UNCHANGED <<marketData, stockData, responses>>
    /\ UNCHANGED <<companyName, subjectVars, peerVars, stored, callVars>>

\* line 221 settles
MarketFetched ==
    /\ pc = "awaitInitial"
    /\ "market" \in pending
    /\ \E o \in MarketOutcomes : marketData' = fetchHistoricalData(o)
    /\ pending' = pending \ {"market"}
    /\ UNCHANGED <<pc, reqVars, suffix, companyName, stockData,
                   marketFetches, subjectFetches, subjectVars, peerVars, stored,
                   responses, stages, callVars>>

\* line 222 settles
StockFetched ==
    /\ pc = "awaitInitial"
    /\ "stock" \in pending
    /\ \E o \in StockOutcomes :
        /\ stockData' = fetchHistoricalData(o)
        /\ subjectFetches' = Settle(subjectFetches, fetchHistoricalData(o))
    /\ pending' = pending \ {"stock"}
    /\ UNCHANGED <<pc, reqVars, suffix, companyName, marketData,
                   marketFetches, subjectVars, peerVars, stored,
                   responses, stages, callVars>>

\* lines 223 and 228: the quote settles; the company name is taken from it
QuoteFetched ==
    /\ pc = "awaitInitial"
    /\ "quote" \in pending
    /\ \E quoteInitial \in QuoteOutcomes(fullTicker) :
        companyName' = FirstName(quoteInitial.longName, quoteInitial.shortName,
                                 req.ticker)
    /\ pending' = pending \ {"quote"}
    /\ UNCHANGED <<pc, reqVars, suffix, marketData, stockData,
                   marketFetches, subjectFetches, subjectVars, peerVars, stored,
                   responses, stages, callVars>>

\* line 119: getPeers is called and suspends on the subject's profile lookup
CallGetPeers ==
    /\ gp' = [NoGetPeers EXCEPT !.pc = "summary"]
    /\ pc' = "awaitGetPeers"

\* a faulty variant: the null check of line 273 is left out
ComputeSubjectBetaNoNullCheck(sd) ==
    IF IsEmpty(marketData)
    THEN /\ Respond(NoMarketData)
         /\ UNCHANGED <<subjectVars, gp, stages>>
    ELSE IF MarketDateThrows(marketData.rows) \/ DateThrows(sd.rows)
    THEN /\ Respond(InternalError)
         /\ stages' = Append(stages, "ComputeSubjectBeta")
         /\ UNCHANGED <<subjectVars, gp>>
    ELSE LET dm == BuildDateMap(marketData.rows)
             sp == AlignedPrices(sd.rows, dm)
             mp == AlignedMarket(sd.rows, dm)
         IN  /\ dateMap' = dm
             /\ alignedStockPrices' = sp
             /\ alignedMarketPrices' = mp
             /\ beta' = calculateBetaValue(sp, mp)
             /\ CallGetPeers
             /\ stages' = stages \o <<"ComputeSubjectBeta", "ResolvePeers">>
             /\ UNCHANGED responses

\* a faulty variant: the index check of line 251 is left out; an empty index aligns
\* nothing
ComputeSubjectBetaNoMarketCheck(sd) ==
    IF MarketDateThrows(marketData.rows) \/ DateThrows(sd.rows)
    THEN /\ Respond(InternalError)
         /\ stages' = Append(stages, "ComputeSubjectBeta")
         /\ UNCHANGED <<subjectVars, gp>>
    ELSE LET dm == BuildDateMap(marketData.rows)
             sp == AlignedPrices(sd.rows, dm)
             mp == AlignedMarket(sd.rows, dm)
             b == calculateBetaValue(sp, mp)
         IN  /\ dateMap' = dm
             /\ alignedStockPrices' = sp
             /\ alignedMarketPrices' = mp
             /\ beta' = b
             /\ IF b = Null
                THEN /\ Respond(InsufficientData)
                     /\ stages' = Append(stages, "ComputeSubjectBeta")
                     /\ UNCHANGED gp
                ELSE /\ CallGetPeers
                     /\ stages' = stages \o <<"ComputeSubjectBeta", "ResolvePeers">>
                     /\ UNCHANGED responses

\* lines 251-277 with the subject's rows sd: the index check, the date map, the
\* alignment, the beta, and the call of getPeers; a date that cannot be
\* formatted throws, and the catch of line 362 answers
ComputeSubjectBeta(sd) ==
    IF IsEmpty(marketData)
    THEN /\ Respond(NoMarketData)
         /\ UNCHANGED <<subjectVars, gp, stages>>
    ELSE IF MarketDateThrows(marketData.rows) \/ DateThrows(sd.rows)
    THEN /\ Respond(InternalError)
         /\ stages' = Append(stages, "ComputeSubjectBeta")
         /\ UNCHANGED <<subjectVars, gp>>
    ELSE LET dm == BuildDateMap(marketData.rows)
             sp == AlignedPrices(sd.rows, dm)
             mp == AlignedMarket(sd.rows, dm)
             b == calculateBetaValue(sp, mp)
         IN  /\ dateMap' = dm
             /\ alignedStockPrices' = sp
             /\ alignedMarketPrices' = mp
             /\ beta' = b
             /\ IF b = Null
                THEN /\ Respond(InsufficientData)
                     /\ stages' = Append(stages, "ComputeSubjectBeta")
                     /\ UNCHANGED gp
                ELSE /\ CallGetPeers
                     /\ stages' = stages \o <<"ComputeSubjectBeta", "ResolvePeers">>
                     /\ UNCHANGED responses

\* a faulty variant: no fallback; an empty primary fetch is the 404 at once
AfterInitialFetchNoRetry ==
    /\ pc = "awaitInitial"
    /\ pending = {}
    /\ IF IsEmpty(stockData)
       THEN /\ Respond(SubjectDataMissing)
            /\ UNCHANGED <<subjectFetches, subjectVars, peerVars, stages>>
       ELSE /\ ComputeSubjectBeta(stockData)
            /\ UNCHANGED <<subjectFetches, peerSymbols, branch, finalPeers>>
    /\ UNCHANGED <<reqVars, suffix, companyName, pending, marketData, stockData,
                   marketFetches, stored, callVars>>

\* lines 226-240: the first Promise.all has resolved
AfterInitialFetch ==
    /\ pc = "awaitInitial"
    /\ pending = {}
    /\ IF IsEmpty(stockData)
       THEN LET altSuffix == AltSuffix(suffix)
                altTicker == IF EndsWith(req.ticker, altSuffix) THEN req.ticker
                             ELSE WithSuffix(req.ticker, altSuffix)
            IN  /\ subjectFetches' = Append(subjectFetches, Fetch(altTicker))
                /\ pc' = "awaitAlt"
                /\ UNCHANGED <<subjectVars, peerVars, responses, stages>>
       ELSE /\ ComputeSubjectBeta(stockData)
            /\ UNCHANGED <<subjectFetches, peerSymbols, branch, finalPeers>>
    /\ UNCHANGED <<reqVars, suffix, companyName, pending, marketData, stockData,
                   marketFetches, stored, callVars>>

\* a faulty variant: an empty alternate fetch is followed by a fetch under the
\* other suffix, again and again
AfterAltFetchRetriesForever ==
    /\ pc = "awaitAlt"
    /\ \E o \in StockOutcomes,
          altQuote \in QuoteOutcomes(subjectFetches[Len(subjectFetches)].ticker) :
        LET altData == fetchHistoricalData(o)
        IN  IF IsEmpty(altData)
            THEN /\ suffix' = AltSuffix(suffix)
                 /\ subjectFetches' = [subjectFetches EXCEPT ![Len(subjectFetches)] =
                                            Fetch(WithSuffix(req.ticker, suffix))]
                 /\ UNCHANGED <<pc, responses, companyName, stockData, subjectVars, gp,
                                stages>>
            ELSE /\ subjectFetches' = Settle(subjectFetches, altData)
                 /\ stockData' = altData
                 /\ suffix' = AltSuffix(suffix)
                 /\ companyName' = FirstName(altQuote.longName, altQuote.shortName,
                                             req.ticker)
                 /\ ComputeSubjectBeta(altData)
    /\ UNCHANGED <<reqVars, pending, marketData, marketFetches,
                   peerSymbols, branch, finalPeers, stored, callVars>>

\* lines 237-249 and on: the alternate fetch and quote have settled
AfterAltFetch ==
    /\ pc = "awaitAlt"
    /\ \E o \in StockOutcomes,
          altQuote \in QuoteOutcomes(subjectFetches[Len(subjectFetches)].ticker) :
        LET altData == fetchHistoricalData(o)
        IN  /\ subjectFetches' = Settle(subjectFetches, altData)
            /\ IF IsEmpty(altData)
               THEN /\ Respond(SubjectDataMissing)
                    /\ UNCHANGED <<suffix, companyName, stockData, subjectVars, gp,
                                   stages>>
               ELSE /\ stockData' = altData
                    /\ suffix' = AltSuffix(suffix)
                    /\ companyName' = FirstName(altQuote.longName, altQuote.shortName,
                                                req.ticker)
                    /\ ComputeSubjectBeta(altData)
    /\ UNCHANGED <<reqVars, pending, marketData, marketFetches,
                   peerSymbols, branch, finalPeers, stored, callVars>>

-----------------------------------------------------------------------------
(* The per-peer callbacks of the fan-out *)

PendingEntry == [st |-> "pending", ticker |-> NoTicker, name |-> NoTicker,
                 beta |-> Null, sector |-> <<>>]
NullEntry == [st |-> "null", ticker |-> NoTicker, name |-> NoTicker,
              beta |-> Null, sector |-> <<>>]

Entry(peer, pName, pBeta) ==
    [st |-> "entry", ticker |-> peer.slug, name |-> pName, beta |-> pBeta,
     sector |-> peer.sector]

\* a faulty variant: a peer whose beta is null is dropped like a failed one
PeerEntryDropNullBeta(peer, peerData, pName, dm) ==
    IF DateThrows(peerData.rows) THEN NullEntry
    ELSE LET pPrices == AlignedPrices(peerData.rows, dm)
             mPrices == AlignedMarket(peerData.rows, dm)
         IN  IF calculateBetaValue(pPrices, mPrices) = Null THEN NullEntry
             ELSE Entry(peer, pName, calculateBetaValue(pPrices, mPrices))

\* lines 315-337 for a peer with at least 2 rows: align, check, compute; an
\* exception ends in the catch of line 334
PeerEntry(peer, peerData, pName, dm) ==
    IF DateThrows(peerData.rows) THEN NullEntry
    ELSE LET pPrices == AlignedPrices(peerData.rows, dm)
             mPrices == AlignedMarket(peerData.rows, dm)
         IN  IF Len(pPrices) < 2 THEN NullEntry
             ELSE Entry(peer, pName, calculateBetaValue(pPrices, mPrices))

\* pPrices.length when the callback got as far as the alignment, -1 when it
\* ended before: no rows after the fallback, or an exception
AlignedPoints(peerData, dm) ==
    IF IsShort(peerData) \/ DateThrows(peerData.rows) THEN -1
    ELSE Len(AlignedPrices(peerData.rows, dm))

\* lines 282-293: the callback starts and suspends on its first fetch
StartBranch(peer, sfx) ==
    LET peerFullTicker == IF ~IncludesDot(peer.slug) THEN WithSuffix(peer.slug, sfx)
                          ELSE peer.slug
    IN  [pc |-> "await1", fetches |-> <<peerFullTicker>>, pName |-> NoTicker,
         points |-> -1, result |-> PendingEntry]

\* lines 277-280: getPeers has returned peers; the fan-out starts
ReturnPeers(peers) ==
    /\ peerSymbols' = peers
    /\ branch' = [i \in 1..Len(peers) |-> StartBranch(peers[i], suffix)]
    /\ stages' = Append(stages, "ComputePeerBetas")
    /\ pc' = "awaitPeerBetas"

\* a faulty variant: the callback that falls back assigns the suffix the
\* callbacks share, as the handler does for the subject (line 248)
PeerFetchedWritesSuffix(i) ==
    /\ pc = "awaitPeerBetas"
    /\ i \in 1..Len(branch)
    /\ branch[i].pc = "await1"
    /\ \E o \in PeerOutcomes, q \in QuoteOutcomes(branch[i].fetches[1]) :
        LET peer == peerSymbols[i]
            peerData == fetchHistoricalData(o)
            pName == FirstName(q.shortName, q.longName, peer.slug)
            altSuffix == AltSuffix(suffix)
            altTicker == IF EndsWith(peer.slug, altSuffix) THEN peer.slug
                         ELSE WithSuffix(peer.slug, altSuffix)
        IN  IF IsShort(peerData)
            THEN /\ branch' = [branch EXCEPT ![i] =
                        [@ EXCEPT !.pc = "await2", !.pName = pName,
                                  !.fetches = Append(@, altTicker)]]
                 /\ suffix' = altSuffix
            ELSE /\ suffix' = suffix
                 /\ branch' = [branch EXCEPT ![i] =
                    [@ EXCEPT !.pc = "done",
                              !.points = AlignedPoints(peerData, dateMap),
                              !.result = PeerEntry(peer, peerData, pName, dateMap)]]
    /\ UNCHANGED <<pc, reqVars, companyName, fetchVars, subjectVars, gp,
                   peerSymbols, finalPeers, stored, responses, stages, callVars>>

\* lines 294-313 and on: the first fetch and quote of peer i have settled
PeerFetchedStep(i) ==
    /\ pc = "awaitPeerBetas"
    /\ i \in 1..Len(branch)
    /\ branch[i].pc = "await1"
    /\ \E o \in PeerOutcomes, q \in QuoteOutcomes(branch[i].fetches[1]) :
        LET peer == peerSymbols[i]
            peerData == fetchHistoricalData(o)
            pName == FirstName(q.shortName, q.longName, peer.slug)
            altSuffix == AltSuffix(suffix)
            altTicker == IF EndsWith(peer.slug, altSuffix) THEN peer.slug
                         ELSE WithSuffix(peer.slug, altSuffix)
        IN  IF IsShort(peerData)
            THEN branch' = [branch EXCEPT ![i] =
                    [@ EXCEPT !.pc = "await2", !.pName = pName,
                              !.fetches = Append(@, altTicker)]]
            ELSE branch' = [branch EXCEPT ![i] =
                    [@ EXCEPT !.pc = "done",
                              !.points = AlignedPoints(peerData, dateMap),
                              !.result = PeerEntry(peer, peerData, pName, dateMap)]]
    /\ UNCHANGED <<pc, reqVars, suffix, companyName, fetchVars, subjectVars, gp,
                   peerSymbols, finalPeers, stored, responses, stages, fnVars>>

PeerFetched(i) ==
    /\ PeerFetchedStep(i)
    /\ UNCHANGED calls

\* a faulty variant: a short alternate fetch is followed by one more fetch
PeerAltFetchedRetriesAgain(i) ==
    /\ pc = "awaitPeerBetas"
    /\ i \in 1..Len(branch)
    /\ branch[i].pc = "await2"
    /\ \E o \in PeerOutcomes, q \in QuoteOutcomes(branch[i].fetches[2]) :
        LET peer == peerSymbols[i]
            peerData == fetchHistoricalData(o)
            pName == IF q.ok THEN FirstName(q.shortName, q.longName, peer.slug)
                     ELSE branch[i].pName
        IN  IF IsShort(peerData) /\ Len(branch[i].fetches) < 3
            THEN branch' = [branch EXCEPT ![i] =
                    [@ EXCEPT !.fetches = Append(@, branch[i].fetches[1])]]
            ELSE branch' = [branch EXCEPT ![i] =
                    [@ EXCEPT !.pc = "done", !.pName = NoTicker,
                              !.points = AlignedPoints(peerData, dateMap),
                              !.result = IF IsShort(peerData) THEN NullEntry
                                         ELSE PeerEntry(peer, peerData, pName, dateMap)]]
    /\ UNCHANGED <<pc, reqVars, suffix, companyName, fetchVars, subjectVars, gp,
                   peerSymbols, finalPeers, stored, responses, stages, callVars>>

\* lines 306-337: the alternate fetch and quote of peer i have settled
PeerAltFetchedStep(i) ==
    /\ pc = "awaitPeerBetas"
    /\ i \in 1..Len(branch)
    /\ branch[i].pc = "await2"
    /\ \E o \in PeerOutcomes, q \in QuoteOutcomes(branch[i].fetches[2]) :
        LET peer == peerSymbols[i]
            peerData == fetchHistoricalData(o)
            pName == IF q.ok THEN FirstName(q.shortName, q.longName, peer.slug)
                     ELSE branch[i].pName
        IN  branch' = [branch EXCEPT ![i] =
                [@ EXCEPT !.pc = "done", !.pName = NoTicker,
                          !.points = AlignedPoints(peerData, dateMap),
                          !.result = IF IsShort(peerData) THEN NullEntry
                                     ELSE PeerEntry(peer, peerData, pName, dateMap)]]
    /\ UNCHANGED <<pc, reqVars, suffix, companyName, fetchVars, subjectVars, gp,
                   peerSymbols, finalPeers, stored, responses, stages, fnVars>>

PeerAltFetched(i) ==
    /\ PeerAltFetchedStep(i)
    /\ UNCHANGED calls

\* a faulty variant: the entries in the order in which the callbacks settled
NonNullEntriesAsSettled(bs) ==
    LET kept == SelectSeq(calls.settled, LAMBDA i : bs[i].result.st = "entry")
    IN  [j \in 1..Len(kept) |-> bs[kept[j]].result]

\* peerBetas.filter(p => p !== null)
NonNullEntries(bs) ==
    LET kept == SelectSeq(bs, LAMBDA b : b.result.st = "entry")
    IN  [j \in 1..Len(kept) |-> kept[j].result]

\* a faulty variant: a callback that ends in null rejects the Promise.all, and the
\* handler's catch answers
AfterPeerBetasFailFast ==
    /\ pc = "awaitPeerBetas"
    /\ \A i \in 1..Len(branch) : branch[i].pc = "done"
    /\ IF \E i \in 1..Len(branch) : branch[i].result = NullEntry
       THEN /\ Respond(InternalError)
            /\ UNCHANGED <<finalPeers, stages>>
       ELSE /\ finalPeers' = NonNullEntries(branch)
            /\ stages' = Append(stages, "Assemble")
            /\ pc' = "awaitStore"
            /\ UNCHANGED responses
    /\ UNCHANGED <<reqVars, suffix, companyName, fetchVars, subjectVars, gp,
                   peerSymbols, branch, stored, callVars>>

\* a faulty variant: the handler goes on as soon as one callback has settled
AfterPeerBetasAnySettled ==
    /\ pc = "awaitPeerBetas"
    /\ \E i \in 1..Len(branch) : branch[i].pc = "done"
    /\ finalPeers' = NonNullEntries(branch)
    /\ stages' = Append(stages, "Assemble")
    /\ pc' = "awaitStore"
    /\ UNCHANGED <<reqVars, suffix, companyName, fetchVars, subjectVars, gp,
                   peerSymbols, branch, stored, responses, callVars>>

\* lines 338-350: every callback has settled; filter and call the storage
AfterPeerBetas ==
    /\ pc = "awaitPeerBetas"
    /\ \A i \in 1..Len(branch) : branch[i].pc = "done"
    /\ finalPeers' = NonNullEntries(branch)
    /\ stages' = Append(stages, "Assemble")
    /\ pc' = "awaitStore"
    /\ UNCHANGED <<reqVars, suffix, companyName, fetchVars, subjectVars, gp,
                   peerSymbols, branch, stored, responses, callVars>>

\* lines 343-371: createSearch settles; the response, or the catch of line 362
StoreSettled ==
    /\ pc = "awaitStore"
    /\ \E ok \in BOOLEAN :
        IF ok
        THEN /\ stored' = Append(stored, [ticker |-> fullTicker,
                                          exchange |-> req.exchange,
                                          beta |-> beta, peers |-> finalPeers])
             /\ Respond(SuccessResponse)
             /\ stages' = Append(stages, "Done")
        ELSE /\ Respond(InternalError)
             /\ UNCHANGED <<stored, stages>>
    /\ UNCHANGED <<reqVars, suffix, companyName, fetchVars, subjectVars, peerVars,
                   callVars>>

-----------------------------------------------------------------------------
(* getPeers, one action per await *)

\* symbols the recommendation lookup can return: the subject's own listing among
\* them
SymbolPool(self) == {UpperCase(self), <<"INFY", ".NS">>, <<"WIPRO">>}
SeqsUpTo(S, n) == UNION {[1..m -> S] : m \in 0..n}

\* `return []` of getPeers, or its catch of line 193, then the handler goes on
ReturnNoPeers(position) ==
    /\ gp' = [NoGetPeers EXCEPT !.pc = position]
    /\ ReturnPeers(<<>>)

\* lines 119-128: the subject's profile lookup has settled with outcome o
GetPeersSummaryWith(o) ==
    /\ pc = "awaitGetPeers"
    /\ gp.pc = "summary"
    /\ IF o = "ok"
       THEN /\ gp' = [gp EXCEPT !.pc = "base"]
            /\ UNCHANGED <<pc, peerSymbols, branch, stages>>
       ELSE ReturnNoPeers("returnedNoProfile")
    /\ UNCHANGED <<reqVars, suffix, companyName, fetchVars, subjectVars, finalPeers,
                   stored, responses, fnVars>>

GetPeersSummary ==
    /\ \E o \in {"null", "noDescription", "ok"} : GetPeersSummaryWith(o)
    /\ UNCHANGED calls

\* lines 125-131: the subject's embedding and keywords have settled
GetPeersBaseWith(embOk, kwOk) ==
    /\ pc = "awaitGetPeers"
    /\ gp.pc = "base"
    /\ IF embOk
       THEN /\ gp' = [gp EXCEPT
                   !.pc = "recs",
                   !.baseEmbedding = EmbeddingOf(DescriptionOf(fullTicker)),
                   !.baseKeywords = generateKeywords(DescriptionOf(fullTicker), kwOk)]
            /\ UNCHANGED <<pc, peerSymbols, branch, stages>>
       ELSE ReturnNoPeers("returnedCaught")
    /\ UNCHANGED <<reqVars, suffix, companyName, fetchVars, subjectVars, finalPeers,
                   stored, responses, fnVars>>

GetPeersBase ==
    /\ \E embOk \in BOOLEAN, kwOk \in BOOLEAN : GetPeersBaseWith(embOk, kwOk)
    /\ UNCHANGED calls

\* a faulty variant: getPeers without its try/catch of lines 118 and 193; the
\* rejection of the recommendation lookup reaches the handler's catch of line 362
GetPeersRecommendationsWithUncaught(threw, recSymbols) ==
    /\ pc = "awaitGetPeers"
    /\ gp.pc = "recs"
    /\ IF threw
       THEN /\ Respond(InternalError)
            /\ UNCHANGED <<gp, peerSymbols, branch, stages>>
       ELSE IF Len(recSymbols) = 0
       THEN /\ ReturnNoPeers("returnedNoRecs")
            /\ UNCHANGED responses
       ELSE /\ gp' = [gp EXCEPT !.pc = "recSummaries", !.recSymbols = recSymbols]
            /\ UNCHANGED <<pc, peerSymbols, branch, stages, responses>>
    /\ UNCHANGED <<reqVars, suffix, companyName, fetchVars, subjectVars, finalPeers,
                   stored, fnVars>>

\* lines 131-140: the recommendation lookup has settled: it threw, or gave
\* recSymbols
GetPeersRecommendationsWith(threw, recSymbols) ==
    /\ pc = "awaitGetPeers"
    /\ gp.pc = "recs"
    /\ IF threw
       THEN ReturnNoPeers("returnedCaught")
       ELSE IF Len(recSymbols) = 0
       THEN ReturnNoPeers("returnedNoRecs")
       ELSE /\ gp' = [gp EXCEPT !.pc = "recSummaries", !.recSymbols = recSymbols]
            /\ UNCHANGED <<pc, peerSymbols, branch, stages>>
    /\ UNCHANGED <<reqVars, suffix, companyName, fetchVars, subjectVars, finalPeers,
                   stored, responses, fnVars>>

GetPeersRecommendations ==
    /\ \/ GetPeersRecommendationsWith(TRUE, <<>>)
       \/ \E recSymbols \in SeqsUpTo(SymbolPool(fullTicker), MaxRecs) :
            GetPeersRecommendationsWith(FALSE, recSymbols)
    /\ UNCHANGED calls

\* lines 138-161: the profile lookups of the recommended symbols have settled
GetPeersRecSummariesWith(summaries) ==
    /\ pc = "awaitGetPeers"
    /\ gp.pc = "recSummaries"
    /\ gp' = [gp EXCEPT
                !.pc = "score",
                !.peerCandidates = PeerCandidates(fullTicker, gp.recSymbols, summaries)]
    /\ stages' = Append(stages, "ScorePeers")
    /\ UNCHANGED <<pc, reqVars, suffix, companyName, fetchVars, subjectVars,
                   peerSymbols, branch, finalPeers, stored, responses, fnVars>>

GetPeersRecSummaries ==
    /\ \E summaries \in [1..Len(gp.recSymbols) -> {"null", "noDescription", "ok"}] :
        GetPeersRecSummariesWith(summaries)
    /\ UNCHANGED calls

\* the keyword service during the scoring of n candidates: up or down for the
\* whole getPeers call, as it was for the subject's description
ServiceWide(n) == {[j \in 1..n |-> gp.baseKeywords # <<>>]}

\* lines 156-192: the scoring callbacks have settled; sort, cut, return
GetPeersScoredWith(embOk, kwOk) ==
    /\ pc = "awaitGetPeers"
    /\ gp.pc = "score"
    /\ ReturnPeers(ScoredPeers(gp.peerCandidates, gp.baseEmbedding, gp.baseKeywords,
                               embOk, kwOk))
    /\ gp' = [NoGetPeers EXCEPT !.pc = "returned"]
    /\ UNCHANGED <<reqVars, suffix, companyName, fetchVars, subjectVars, finalPeers,
                   stored, responses, fnVars>>

GetPeersScored ==
    /\ \E embOk \in [1..Len(gp.peerCandidates) -> BOOLEAN],
          kwOk \in ServiceWide(Len(gp.peerCandidates)) :
        GetPeersScoredWith(embOk, kwOk)
    /\ UNCHANGED calls

-----------------------------------------------------------------------------
(* The specification of a request *)

Next ==
    \/ Receive
    \/ MarketFetched
    \/ StockFetched
    \/ QuoteFetched
    \/ AfterInitialFetch
    \/ AfterAltFetch
    \/ GetPeersSummary
    \/ GetPeersBase
    \/ GetPeersRecommendations
    \/ GetPeersRecSummaries
    \/ GetPeersScored
    \/ \E i \in 1..MaxRecs : PeerFetched(i)
    \/ \E i \in 1..MaxRecs : PeerAltFetched(i)
    \/ AfterPeerBetas
    \/ StoreSettled

Spec == Init /\ [][Next]_vars

\* the same request when every call that was started settles and the handler
\* is resumed after every await: a step that can be taken is taken in the end
SpecLive == Init /\ [][Next]_vars /\ WF_vars(Next)

-----------------------------------------------------------------------------
(* The specification of the calculator alone: calculateBetaValue applied to *)
(* every pair of aligned price sequences over a few prices                  *)

Prices == {1, 2, 4}

BetaInputs ==
    UNION {[stock : [1..n -> Prices], market : [1..n -> Prices]] : n \in 0..MaxLen}

InitBeta ==
    /\ Idle
    /\ betaIn \in BetaInputs
    /\ betaOut = NotCalled
    /\ scoreIn = NoScoreIn
    /\ scoreOut = NotScored
    /\ calls = NoCalls
    /\ tiered = NoTiered
    /\ kw = NoKw

CallCalculateBetaValue ==
    /\ betaOut = NotCalled
    /\ betaOut' = calculateBetaValue(betaIn.stock, betaIn.market)
    /\ UNCHANGED <<pc, reqVars, suffix, companyName, fetchVars, subjectVars, peerVars,
                   stored, responses, stages, betaIn, scoreVars, calls, tiered, kw>>

NextBeta == CallCalculateBetaValue

SpecBeta == InitBeta /\ [][NextBeta]_vars

-----------------------------------------------------------------------------
(* The specification of getPeers alone: the handler has called getPeers(fullTicker) *)
(* and waits for it; the outcome of every external call is kept in calls     *)

InitPeers ==
    /\ pc = "awaitGetPeers"
    /\ req \in {r \in Requests : r.valid /\ r.exchange = "NSE" /\ Len(r.ticker) = 1}
    /\ marketTicker = <<"^NSEI">>
    /\ suffix = ".NS"
    /\ fullTicker = WithSuffix(req.ticker, ".NS")
    /\ pending = {}
    /\ marketData = Unset
    /\ stockData = Unset
    /\ companyName = req.ticker
    /\ marketFetches = <<>>
    /\ subjectFetches = <<>>
    /\ dateMap = NoDateMap
    /\ alignedStockPrices = <<>>
    /\ alignedMarketPrices = <<>>
    /\ beta = NotCalled
    /\ gp = [NoGetPeers EXCEPT !.pc = "summary"]
    /\ peerSymbols = <<>>
    /\ branch = <<>>
    /\ finalPeers = <<>>
    /\ stored = <<>>
    /\ responses = <<>>
    /\ stages = <<"FetchSubject", "ComputeSubjectBeta", "ResolvePeers">>
    /\ betaIn = NoBetaIn
    /\ betaOut = NotCalled
    /\ scoreIn = NoScoreIn
    /\ scoreOut = NotScored
    /\ calls = NoCalls
    /\ tiered = NoTiered
    /\ kw = NoKw

CallOutcome(ok) == IF ok THEN "ok" ELSE "failed"

PeersSummary ==
    \E o \in {"null", "noDescription", "ok"} :
        /\ GetPeersSummaryWith(o)
        /\ calls' = [calls EXCEPT !.profile = o]

PeersBase ==
    \E embOk \in BOOLEAN, kwOk \in BOOLEAN :
        /\ GetPeersBaseWith(embOk, kwOk)
        /\ calls' = [calls EXCEPT !.baseEmbedding = CallOutcome(embOk),
                                  !.baseKeywords = CallOutcome(kwOk)]

PeersRecommendations ==
    \/ /\ GetPeersRecommendationsWith(TRUE, <<>>)
       /\ calls' = [calls EXCEPT !.recommendations = "failed"]
    \/ \E recSymbols \in SeqsUpTo(SymbolPool(fullTicker), MaxRecs) :
        /\ GetPeersRecommendationsWith(FALSE, recSymbols)
        /\ calls' = [calls EXCEPT !.recommendations = "ok", !.recSymbols = recSymbols]

PeersRecSummaries ==
    \E summaries \in [1..Len(gp.recSymbols) -> {"null", "noDescription", "ok"}] :
        /\ GetPeersRecSummariesWith(summaries)
        /\ calls' = [calls EXCEPT !.summaries = summaries]

\* here each keyword call of the scoring fails or succeeds on its own
PeersScored ==
    \E embOk \in [1..Len(gp.peerCandidates) -> BOOLEAN],
       kwOk \in [1..Len(gp.peerCandidates) -> BOOLEAN] :
        /\ GetPeersScoredWith(embOk, kwOk)
        /\ calls' = [calls EXCEPT !.candidates = gp.peerCandidates, !.embOk = embOk,
                                  !.kwOk = kwOk, !.scored = TRUE]

NextPeers ==
    \/ PeersSummary
    \/ PeersBase
    \/ PeersRecommendations
    \/ PeersRecSummaries
    \/ PeersScored

SpecPeers == InitPeers /\ [][NextPeers]_vars

-----------------------------------------------------------------------------
(* The specification of the older getPeers alone, called for one symbol *)

TierSubject == <<"TCS", ".NS">>
TierSymbols == <<"INFY", "WIPRO", "HCLTECH", "LT", "MPHASIS", "TECHM", "COFORGE", "LTIM">>
SubjectProfiles == {NoSummary, NoAssetProfile, Profile("Technology", "IT Services")}
CandidateProfiles ==
    {NoSummary, NoAssetProfile, Profile("Technology", "IT Services"),
     Profile("Technology", "Hardware"), Profile("Energy", "Oil")}

InitTiers ==
    /\ Idle
    /\ betaIn = NoBetaIn
    /\ betaOut = NotCalled
    /\ scoreIn = NoScoreIn
    /\ scoreOut = NotScored
    /\ calls = NoCalls
    /\ tiered = [NoTiered EXCEPT !.pc = "quote"]
    /\ kw = NoKw

TiersUnchanged ==
    UNCHANGED <<pc, reqVars, suffix, companyName, fetchVars, subjectVars, peerVars,
                stored, responses, stages, betaVars, scoreVars, calls, kw>>

\* `return []`, or the catch of lines 487-490
TiersReturn(peers) == tiered' = [tiered EXCEPT !.pc = "returned", !.peers = peers]

\* lines 436-437: the quote of the symbol has settled
TiersQuote ==
    /\ tiered.pc = "quote"
    /\ \E o \in {"ok", "noSymbol", "threw"} :
        IF o = "ok" THEN tiered' = [tiered EXCEPT !.pc = "summary"]
        ELSE TiersReturn(<<>>)
    /\ TiersUnchanged

\* lines 441-444: the symbol's own profile
TiersSummary ==
    /\ tiered.pc = "summary"
    /\ \E summary \in SubjectProfiles :
        tiered' = [tiered EXCEPT !.pc = "recs",
                                 !.targetSector = summary.sector,
                                 !.targetIndustry = summary.industry]
    /\ TiersUnchanged

\* lines 449-455: the recommendation lookup threw, or gave up to MaxTierRecs
\* symbols, the symbol asked about possibly among them
TiersRecommendations ==
    /\ tiered.pc = "recs"
    /\ \/ TiersReturn(<<>>)
       \/ \E n \in 1..MaxTierRecs : \E self \in [1..n -> BOOLEAN] :
            tiered' = [tiered EXCEPT
                        !.pc = "recSummaries",
                        !.recSymbols = [j \in 1..n |-> IF self[j] THEN TierSubject
                                                       ELSE <<TierSymbols[j], ".NS">>]]
    /\ TiersUnchanged

\* lines 456-486: the profile lookups have settled; filter, cut, return
TiersFiltered ==
    /\ tiered.pc = "recSummaries"
    /\ \E recSummaries \in [1..Len(tiered.recSymbols) -> CandidateProfiles] :
        LET validPeers == ValidPeers(TierSubject, tiered.recSymbols, recSummaries)
            f == FilterTiers(validPeers, tiered.targetSector, tiered.targetIndustry)
        IN  tiered' = [tiered EXCEPT !.pc = "returned",
                                     !.validPeers = validPeers,
                                     !.tiers = f.tiers,
                                     !.peers = FilteredPeers(f.filtered)]
    /\ TiersUnchanged

NextTiers ==
    \/ TiersQuote
    \/ TiersSummary
    \/ TiersRecommendations
    \/ TiersFiltered

SpecTiers == InitTiers /\ [][NextTiers]_vars

-----------------------------------------------------------------------------
(* The specification of the keyword overlap alone: generateKeywords on two   *)
(* completions, then calculateKeywordOverlap on the two keyword lists        *)

\* items a completion can hold between its commas
Items == {"it", " IT", "cloud"}
\* the completions: the call failed, a short answer, or one of a few answers of
\* five and six items ("".split(",") is [""], so an answer has an item at least)
Completions ==
    {NoCompletion}
    \cup {[ok |-> TRUE, items |-> c] : c \in UNION {[1..n -> Items] : n \in 1..MaxItems}}
    \cup {[ok |-> TRUE, items |-> c] :
            c \in {<<"it", "cloud", "consulting", "software", "services">>,
                   <<" IT", "Cloud ", "outsourcing", "software", "digital">>,
                   <<"it", "it", "cloud", "cloud", "software">>,
                   <<"erp", "retail", "bpo", "energy", "hardware">>,
                   <<"it", "cloud", "consulting", "software", "services", "digital">>,
                   <<"">>}}

InitOverlap ==
    /\ Idle
    /\ betaIn = NoBetaIn
    /\ betaOut = NotCalled
    /\ scoreIn = NoScoreIn
    /\ scoreOut = NotScored
    /\ calls = NoCalls
    /\ tiered = NoTiered
    /\ kw \in {[NoKw EXCEPT !.pc = "generate", !.a = a, !.b = b] :
                    a \in Completions, b \in Completions}

OverlapUnchanged ==
    UNCHANGED <<pc, reqVars, suffix, companyName, fetchVars, subjectVars, peerVars,
                stored, responses, stages, betaVars, scoreVars, calls, tiered>>

\* lines 125-128 and 158-161: the two generateKeywords calls have settled
CallGenerateKeywords ==
    /\ kw.pc = "generate"
    /\ kw' = [kw EXCEPT !.pc = "overlap",
                        !.keywordsA = KeywordsOfCompletion(kw.a),
                        !.keywordsB = KeywordsOfCompletion(kw.b)]
    /\ OverlapUnchanged

\* line 165
CallCalculateKeywordOverlap ==
    /\ kw.pc = "overlap"
    /\ kw' = [kw EXCEPT !.pc = "done",
                        !.overlap = calculateKeywordOverlap(kw.keywordsA, kw.keywordsB)]
    /\ OverlapUnchanged

NextOverlap ==
    \/ CallGenerateKeywords
    \/ CallCalculateKeywordOverlap

SpecOverlap == InitOverlap /\ [][NextOverlap]_vars

-----------------------------------------------------------------------------
(* The specification of the fan-out alone: getPeers has returned a ranked list, *)
(* the callbacks settle in any order, calls.settled keeps the order           *)

RankedPeer(kind, place) ==
    [slug |-> <<kind, ".NS">>, sector |-> <<"Technology", ">", "IT Services">>,
     marketCap |-> 7, similarityScore |-> 100 - 10 * place, keywords |-> <<>>]
\* the lists getPeers can have returned: distinct symbols, highest score first
RankedLists ==
    UNION {{[j \in 1..n |-> RankedPeer(kinds[j], j)] :
                kinds \in {f \in [1..n -> {"INFY", "HCL", "WIPRO"}] :
                                \A a, b \in 1..n : a # b => f[a] # f[b]}} :
           n \in 0..MaxFanOut}

FanOutIndexRows == DailyRows(<<1, 2, 4, 3, 6>>)
FanOutSubjectRows == DailyRows(<<2, 3, 7, 6, 9>>)

InitFanOut ==
    /\ pc = "awaitPeerBetas"
    /\ req \in {r \in Requests : r.valid /\ r.exchange = "NSE" /\ r.ticker = <<"TCS">>}
    /\ marketTicker = <<"^NSEI">>
    /\ suffix = ".NS"
    /\ fullTicker = <<"TCS", ".NS">>
    /\ pending = {}
    /\ marketData = Rows(FanOutIndexRows)
    /\ stockData = Rows(FanOutSubjectRows)
    /\ companyName = <<"TCS">>
    /\ marketFetches = <<>>
    /\ subjectFetches = <<>>
    /\ dateMap = BuildDateMap(FanOutIndexRows)
    /\ alignedStockPrices = AlignedPrices(FanOutSubjectRows, BuildDateMap(FanOutIndexRows))
    /\ alignedMarketPrices = AlignedMarket(FanOutSubjectRows, BuildDateMap(FanOutIndexRows))
    /\ beta = calculateBetaValue(AlignedPrices(FanOutSubjectRows, BuildDateMap(FanOutIndexRows)),
                                 AlignedMarket(FanOutSubjectRows, BuildDateMap(FanOutIndexRows)))
    /\ gp = [NoGetPeers EXCEPT !.pc = "returned"]
    /\ peerSymbols \in RankedLists
    /\ branch = [i \in 1..Len(peerSymbols) |-> StartBranch(peerSymbols[i], ".NS")]
    /\ finalPeers = <<>>
    /\ stored = <<>>
    /\ responses = <<>>
    /\ stages = <<"FetchSubject", "ComputeSubjectBeta", "ResolvePeers", "ScorePeers",
                  "ComputePeerBetas">>
    /\ betaIn = NoBetaIn
    /\ betaOut = NotCalled
    /\ scoreIn = NoScoreIn
    /\ scoreOut = NotScored
    /\ calls = NoCalls
    /\ tiered = NoTiered
    /\ kw = NoKw

\* calls.settled after a step of the callback of peer i
SettledAfter(i) ==
    IF branch'[i].pc = "done" THEN [calls EXCEPT !.settled = Append(@, i)] ELSE calls

FanOutPeerFetched ==
    \E i \in 1..Len(branch) :
        /\ PeerFetchedStep(i)
        /\ calls' = SettledAfter(i)

FanOutPeerAltFetched ==
    \E i \in 1..Len(branch) :
        /\ PeerAltFetchedStep(i)
        /\ calls' = SettledAfter(i)

NextFanOut ==
    \/ FanOutPeerFetched
    \/ FanOutPeerAltFetched
    \/ AfterPeerBetas
    \/ StoreSettled

SpecFanOut == InitFanOut /\ [][NextFanOut]_vars

-----------------------------------------------------------------------------
(* The specification of the scoring alone: lines 156-192 of getPeers applied  *)
(* to every list of candidates over a few descriptions, for the subject TCS  *)

MaxCands == 6

ScoreSubject == <<"TCS", ".NS">>
CandidateKinds == {"TCS", "HCL", "LT", "MPHASIS"}

\* the candidate found at position j of the recommendations, with the profile
\* of the given company; its market cap tells the positions apart
Candidate(kind, j) ==
    [slug |-> <<kind, ".NS">>, description |-> DescriptionOf(<<kind>>),
     sector |-> "Technology",
     industry |-> IF kind = "TCS" THEN "Consulting" ELSE "IT Services",
     marketCap |-> j]

\* the embedding calls all succeed, or the one of a single candidate fails
EmbeddingCalls(n) ==
    {[j \in 1..n |-> TRUE]} \cup {[j \in 1..n |-> j # f] : f \in 1..n}

ScoreInputs ==
    UNION {[cands : {[j \in 1..n |-> Candidate(kinds[j], j)] : kinds \in [1..n -> CandidateKinds]},
            embOk : EmbeddingCalls(n),
            kwOk : BOOLEAN] : n \in 0..MaxCands}

InitScore ==
    /\ Idle
    /\ betaIn = NoBetaIn
    /\ betaOut = NotCalled
    /\ scoreIn \in ScoreInputs
    /\ scoreOut = NotScored
    /\ calls = NoCalls
    /\ tiered = NoTiered
    /\ kw = NoKw

ScoreBaseEmbedding == EmbeddingOf(DescriptionOf(ScoreSubject))
ScoreBaseKeywords == generateKeywords(DescriptionOf(ScoreSubject), scoreIn.kwOk)

CallScoredPeers ==
    /\ ~scoreOut.called
    /\ scoreOut' = [called |-> TRUE,
                    peers |-> ScoredPeers(scoreIn.cands, ScoreBaseEmbedding,
                                          ScoreBaseKeywords, scoreIn.embOk,
                                          [j \in 1..Len(scoreIn.cands) |-> scoreIn.kwOk])]
    /\ UNCHANGED <<pc, reqVars, suffix, companyName, fetchVars, subjectVars, peerVars,
                   stored, responses, stages, betaVars, scoreIn, calls, tiered, kw>>

NextScore == CallScoredPeers

SpecScore == InitScore /\ [][NextScore]_vars

-----------------------------------------------------------------------------
(* Properties of the calculator (SpecBeta) *)

\* the textbook population statistics, by the moment formulas
PopMean(xs) == RDiv(RSum(xs), Num(Len(xs)))
PopCovariance(xs, ys) ==
    RSub(RDiv(RSum([i \in 1..Len(xs) |-> RMul(xs[i], ys[i])]), Num(Len(xs))),
         RMul(PopMean(xs), PopMean(ys)))
PopVariance(xs) == PopCovariance(xs, xs)
\* r_t = (p_t - p_{t-1}) / p_{t-1}, t = 2..Len(p)
SimpleReturns(p) ==
    [t \in 1..(Len(p) - 1) |-> RDiv(Num(p[t + 1] - p[t]), Num(p[t]))]

BetaCalled == betaOut # NotCalled

\* C1: for aligned price sequences of equal length >= 3 whose benchmark returns
\* have non-zero variance, calculateBetaValue returns the population covariance
\* of the two return series over the population variance of the benchmark's.
C1_BetaIsCovarianceOverVariance ==
    (/\ BetaCalled
     /\ Len(betaIn.stock) >= 3
     /\ PopVariance(SimpleReturns(betaIn.market)) # Zero)
    => betaOut = RDiv(PopCovariance(SimpleReturns(betaIn.stock),
                                    SimpleReturns(betaIn.market)),
                      PopVariance(SimpleReturns(betaIn.market)))

C1_Witness ==
    /\ BetaCalled
    /\ betaIn.stock = <<1, 4, 2, 4>>
    /\ betaIn.market = <<2, 4, 4, 1>>
    /\ IsNum(betaOut)
    /\ betaOut \notin {Zero, Num(1)}

-----------------------------------------------------------------------------
(* Properties of the request (Spec) *)

Responded(r) == \E i \in 1..Len(responses) : responses[i] = r
SubjectComputed == beta # NotCalled
OriginalSuffix == IF req.exchange = "NSE" THEN ".NS" ELSE ".BO"

\* C3: with fewer than 3 aligned points (fewer than 2 return observations; one
\* common trading day or none included) the subject's beta is null and the
\* request ends with the failure "Insufficient data points to calculate beta".
C3_TooFewPointsIsReportedFailure ==
    (SubjectComputed /\ Len(alignedStockPrices) < 3)
    => /\ beta = Null
       /\ responses = <<InsufficientData>>
       /\ pc = "done"

C3_Witness ==
    /\ SubjectComputed
    /\ Len(alignedStockPrices) = 1
    /\ beta = Null
    /\ responses = <<InsufficientData>>

\* C4: every aligned pair holds closes that are present and > 0, for the
\* subject's series and the benchmark's.
C4_AlignedClosesPositive ==
    \A i \in 1..Len(alignedStockPrices) :
        alignedStockPrices[i] > 0 /\ alignedMarketPrices[i] > 0

\* C5: an empty or failed primary fetch of the subject is followed by exactly
\* one fetch with the alternate suffix; the 404 comes only after both gave no
\* data; there is never a third fetch.
C5_RetryOnceWithAlternateSuffix ==
    /\ Len(subjectFetches) <= 2
    /\ (/\ pc \notin {"idle", "awaitInitial"}
        /\ Len(subjectFetches) >= 1
        /\ subjectFetches[1].result = "nodata")
       => /\ Len(subjectFetches) = 2
          /\ EndsWith(subjectFetches[2].ticker, AltSuffix(OriginalSuffix))
          /\ subjectFetches[2].ticker # subjectFetches[1].ticker
    /\ Len(subjectFetches) = 2 => subjectFetches[1].result = "nodata"
    /\ Responded(SubjectDataMissing)
       => /\ Len(subjectFetches) = 2
          /\ \A i \in 1..2 : subjectFetches[i].result = "nodata"

C5_Witness ==
    /\ responses = <<SubjectDataMissing>>
    /\ Len(subjectFetches) = 2
    /\ subjectFetches[1].ticker = <<"TCS", ".BO", ".NS">>
    /\ subjectFetches[2].ticker = <<"TCS", ".BO">>

\* C6: once the subject's beta has come out null, the request has ended with
\* the insufficient-data failure: getPeers was not called, no peer was fetched
\* or computed, and nothing was written to the storage.
C6_NoPeersAfterFailedSubjectBeta ==
    beta = Null
    => /\ pc = "done"
       /\ responses = <<InsufficientData>>
       /\ gp = NoGetPeers
       /\ peerSymbols = <<>>
       /\ branch = <<>>
       /\ finalPeers = <<>>
       /\ stored = <<>>

C6_Witness ==
    /\ beta = Null
    /\ Len(alignedMarketPrices) = 5
    /\ \A i \in 1..5 : alignedMarketPrices[i] = 2
    /\ pc = "done"

Entered(stage) == \E i \in 1..Len(stages) : stages[i] = stage
FanOutStarted == Entered("ComputePeerBetas")
Settled(i) == branch[i].pc = "done"
EntryBranches == {i \in 1..Len(branch) : branch[i].result.st = "entry"}

\* finalPeers holds the entries of the callbacks that returned one, and no other
FinalPeersAreTheEntries ==
    /\ Len(finalPeers) = Cardinality(EntryBranches)
    /\ \A i \in EntryBranches : \E k \in 1..Len(finalPeers) : finalPeers[k] = branch[i].result
    /\ \A k \in 1..Len(finalPeers) : \E i \in EntryBranches : finalPeers[k] = branch[i].result

\* formatting a date of the index or of the subject threw
AlignmentThrew == \/ MarketDateThrows(marketData.rows)
                  \/ DateThrows(stockData.rows)

\* after the fan-out the only failure response is the one of a rejected storage
\* write, sent after the barrier was passed
NoErrorFromThePeers ==
    (FanOutStarted /\ pc = "done")
    => /\ Entered("Assemble")
       /\ Len(responses) = 1
       /\ \/ responses[1].status = 200 /\ responses[1].peers = finalPeers
          \/ responses[1] = InternalError /\ stored = <<>>

\* a step of one callback leaves the others, and what they read, as they were
OneBranchPerStep ==
    (pc = "awaitPeerBetas" /\ pc' = "awaitPeerBetas")
    => /\ Len(branch') = Len(branch)
       /\ <<peerSymbols, dateMap, suffix>>' = <<peerSymbols, dateMap, suffix>>
       /\ \A i \in 1..Len(branch) :
            /\ Settled(i) => branch'[i] = branch[i]
            /\ branch'[i] # branch[i]
               => \A j \in 1..Len(branch) : j # i => branch'[j] = branch[j]

\* C7: in the fan-out a peer's failure stays in that peer's entry: a step of
\* one callback changes no sibling and nothing the siblings read, a settled
\* entry never changes, the handler always passes the Promise.all barrier with
\* the entries of the peers that succeeded, and the response after the fan-out
\* is the success response (the one later failure is the storage write's own).
C7_PeerFailureIsIsolated ==
    /\ []((FanOutStarted /\ pc \in {"awaitStore", "done"}) => FinalPeersAreTheEntries)
    /\ []NoErrorFromThePeers
    /\ [][OneBranchPerStep]_vars

C7_Witness ==
    /\ pc = "done"
    /\ Len(responses) = 1
    /\ responses[1].status = 200
    /\ Len(branch) = 2
    /\ branch[1].result = NullEntry
    /\ branch[1].points = -1
    /\ branch[2].result.st = "entry"
    /\ IsNum(branch[2].result.beta)
    /\ Len(responses[1].peers) = 1

\* C8 as stated: no peer of a returned list carries a null beta, and no error
\* response follows the fan-out but the storage write's.
C8_NoNullBetaInPeerList ==
    /\ \A i \in 1..Len(responses) : \A k \in 1..Len(responses[i].peers) :
            responses[i].peers[k].beta # Null
    /\ NoErrorFromThePeers

\* C8 as amended: a peer with fewer than 2 rows after the fallback, with fewer
\* than 2 aligned points, or whose callback throws is removed from the result;
\* a peer with at least 2 aligned points stays in the returned list even when
\* its beta is null (always so with exactly 2 aligned points); none of these
\* turns into an error response.
C8_FailedPeersRemovedNullBetaKept ==
    /\ \A i \in 1..Len(branch) : Settled(i) =>
            /\ branch[i].result = NullEntry <=> branch[i].points < 2
            /\ branch[i].points >= 2 =>
                    /\ branch[i].result.st = "entry"
                    /\ branch[i].result.ticker = peerSymbols[i].slug
            /\ branch[i].points = 2 => branch[i].result.beta = Null
    /\ (FanOutStarted /\ pc \in {"awaitStore", "done"}) => FinalPeersAreTheEntries
    /\ NoErrorFromThePeers

C8_Witness ==
    /\ pc = "done"
    /\ Len(responses) = 1
    /\ responses[1].status = 200
    /\ Len(branch) = 2
    /\ branch[1].result = NullEntry
    /\ branch[2].points = 2
    /\ Len(responses[1].peers) = 1
    /\ responses[1].peers[1].beta = Null

SubjectDataExists == \E i \in 1..Len(subjectFetches) : subjectFetches[i].result = "data"
MarketDataExists == ~IsEmpty(marketData)
Degenerate ==
    \/ Len(alignedStockPrices) < 3
    \/ PopVariance(SimpleReturns(alignedMarketPrices)) = Zero

StageOrder == <<"FetchSubject", "ComputeSubjectBeta", "ResolvePeers", "ScorePeers",
                "ComputePeerBetas", "Assemble", "Done">>
StageRank(stage) == CHOOSE r \in 1..Len(StageOrder) : StageOrder[r] = stage
CurrentStage == IF stages = <<>> THEN "" ELSE stages[Len(stages)]

\* the stages entered follow the order, none twice
StagesInOrder ==
    \A i \in 1..Len(stages) :
        /\ \E r \in 1..Len(StageOrder) : StageOrder[r] = stages[i]
        /\ i > 1 => StageRank(stages[i - 1]) < StageRank(stages[i])

\* work in flight belongs to the stage entered last
WorkBelongsToCurrentStage ==
    /\ pc \in {"awaitInitial", "awaitAlt"} => CurrentStage = "FetchSubject"
    /\ pc = "awaitGetPeers" => CurrentStage \in {"ResolvePeers", "ScorePeers"}
    /\ gp.pc = "score" <=> (pc = "awaitGetPeers" /\ CurrentStage = "ScorePeers")
    /\ (\E i \in 1..Len(branch) : ~Settled(i)) => CurrentStage = "ComputePeerBetas"
    /\ pc = "awaitStore" => CurrentStage = "Assemble"

\* C10 as stated: the stages are entered in order, none twice, and a request
\* that entered the pipeline and ended before Done ended in SubjectDataMissing
\* (from FetchSubject) or in InsufficientData (from ComputeSubjectBeta).
C10_OnlyTwoFailureExits ==
    /\ StagesInOrder
    /\ (pc = "done" /\ stages # <<>> /\ CurrentStage # "Done")
       => \/ responses = <<SubjectDataMissing>> /\ CurrentStage = "FetchSubject"
          \/ responses = <<InsufficientData>> /\ CurrentStage = "ComputeSubjectBeta"

\* C10 as amended: the stages are entered in the order FetchSubject,
\* ComputeSubjectBeta, ResolvePeers, ScorePeers, ComputePeerBetas, Assemble, Done,
\* none twice and none skipped but ScorePeers (when getPeers returns early); work
\* in flight belongs to the stage entered last; the exits before Done are
\* SubjectDataMissing and NoMarketData (both from FetchSubject), InsufficientData
\* (from ComputeSubjectBeta) and the internal error of the handler's catch: an
\* exception of the alignment (from ComputeSubjectBeta) or a rejected storage
\* write (from Assemble).
C10_StagesInOrderWithExits ==
    /\ StagesInOrder
    /\ \A i \in 2..Len(stages) :
        \/ StageRank(stages[i]) = StageRank(stages[i - 1]) + 1
        \/ stages[i - 1] = "ResolvePeers" /\ stages[i] = "ComputePeerBetas"
    /\ stages # <<>> => stages[1] = "FetchSubject"
    /\ WorkBelongsToCurrentStage
    /\ (pc = "done" /\ stages # <<>>)
       => \/ responses = <<SuccessResponse>> /\ CurrentStage = "Done"
          \/ responses = <<SubjectDataMissing>> /\ CurrentStage = "FetchSubject"
          \/ responses = <<NoMarketData>> /\ CurrentStage = "FetchSubject"
          \/ responses = <<InsufficientData>> /\ CurrentStage = "ComputeSubjectBeta"
          \/ /\ responses = <<InternalError>>
             /\ \/ CurrentStage = "ComputeSubjectBeta" /\ AlignmentThrew
                \/ CurrentStage = "Assemble" /\ stored = <<>>

C10_Witness ==
    /\ pc = "done"
    /\ stages = StageOrder
    /\ responses = <<SuccessResponse>>
    /\ Len(finalPeers) = 2

\* C14: if on every day the subject's return is k times the benchmark's
\* return, and the benchmark's returns are not all equal, the beta is k; so
\* with returns 1.5 times the benchmark's the beta is 1.5.
C14_ProportionalReturnsGiveFactor ==
    BetaCalled =>
        LET sr == SimpleReturns(betaIn.stock)
            mr == SimpleReturns(betaIn.market)
        IN  \A t0 \in 1..Len(mr) :
                LET k == RDiv(sr[t0], mr[t0])
                IN  (/\ mr[t0] # Zero
                     /\ \E t \in 1..Len(mr) : mr[t] # mr[t0]
                     /\ \A t \in 1..Len(mr) : sr[t] = RMul(k, mr[t]))
                    => betaOut = k

C14_Witness ==
    /\ BetaCalled
    /\ betaIn.market = <<2, 1, 1, 1>>
    /\ betaIn.stock = <<4, 1, 1, 1>>
    /\ betaOut = Rat(3, 2)

-----------------------------------------------------------------------------
(* Properties of the peer resolver *)

\* C11: no two entries of getPeers' output have symbols that are equal after
\* case-insensitive normalization.
C11_NoDuplicatePeers ==
    \A i, j \in 1..Len(peerSymbols) :
        i # j => UpperCase(peerSymbols[i].slug) # UpperCase(peerSymbols[j].slug)

\* C12: no entry of getPeers' output has the subject's symbol, compared after
\* case-insensitive normalization.
C12_SubjectNeverOwnPeer ==
    \A i \in 1..Len(peerSymbols) :
        UpperCase(peerSymbols[i].slug) # UpperCase(fullTicker)

-----------------------------------------------------------------------------
(* Properties of the scoring (SpecScore) *)

\* the candidates whose embedding call succeeded
Scorable == {j \in 1..Len(scoreIn.cands) : scoreIn.embOk[j]}
KeywordsFor(j) == generateKeywords(scoreIn.cands[j].description, scoreIn.kwOk)
EmbeddingSimilarityOf(j) ==
    cosineSimilarity(ScoreBaseEmbedding, EmbeddingOf(scoreIn.cands[j].description))
OverlapOf(j) == calculateKeywordOverlap(ScoreBaseKeywords, KeywordsFor(j))
ScoreOf(j) ==
    SimilarityScore(ScoreBaseEmbedding, ScoreBaseKeywords,
                    EmbeddingOf(scoreIn.cands[j].description), KeywordsFor(j))
\* where candidate j stands in the returned list, 0 when it is not in it
PlaceOf(j) ==
    IF \E k \in 1..Len(scoreOut.peers) : scoreOut.peers[k].marketCap = j
    THEN CHOOSE k \in 1..Len(scoreOut.peers) : scoreOut.peers[k].marketCap = j
    ELSE 0
SameSectorAndIndustry(i, j) ==
    /\ scoreIn.cands[i].sector = scoreIn.cands[j].sector
    /\ scoreIn.cands[i].industry = scoreIn.cands[j].industry
\* candidate i scores strictly higher than j and stands before it
Outranks(i, j) ==
    /\ ScoreOf(i) > ScoreOf(j)
    /\ PlaceOf(j) # 0 => (PlaceOf(i) # 0 /\ PlaceOf(i) < PlaceOf(j))
    /\ PlaceOf(i) # 0 => scoreOut.peers[PlaceOf(i)].similarityScore = ScoreOf(i)

BothDescriptionsReliable(j) ==
    /\ DescriptionLength(DescriptionOf(ScoreSubject)) >= 200
    /\ DescriptionLength(scoreIn.cands[j].description) >= 200

C17_SortedTopFiveStable ==
    scoreOut.called =>
        LET out == scoreOut.peers
        IN  /\ Len(out) <= 5
            /\ Len(out) = IF Cardinality(Scorable) < 5 THEN Cardinality(Scorable) ELSE 5
            /\ \A k \in 1..Len(out) :
                /\ out[k].marketCap \in Scorable
                /\ out[k].slug = scoreIn.cands[out[k].marketCap].slug
                /\ out[k].similarityScore = ScoreOf(out[k].marketCap)
            /\ \A k, l \in 1..Len(out) :
                k < l => /\ out[k].similarityScore >= out[l].similarityScore
                         /\ out[k].marketCap # out[l].marketCap
                         /\ out[k].similarityScore = out[l].similarityScore
                            => out[k].marketCap < out[l].marketCap
            /\ \A j \in Scorable :
                PlaceOf(j) = 0
                => \A k \in 1..Len(out) :
                    \/ out[k].similarityScore > ScoreOf(j)
                    \/ out[k].similarityScore = ScoreOf(j) /\ out[k].marketCap < j

C17_Witness ==
    /\ scoreOut.called
    /\ Cardinality(Scorable) = 6
    /\ Len(scoreOut.peers) = 5
    /\ PlaceOf(1) = 0
    /\ scoreOut.peers[1].marketCap = 3
    /\ scoreOut.peers[2].similarityScore = scoreOut.peers[3].similarityScore
    /\ scoreOut.peers[4].similarityScore > scoreOut.peers[5].similarityScore

\* C20: every similarityScore of a returned peer lies in 0..100.
C20_ScoreBetween0And100 ==
    scoreOut.called =>
        \A k \in 1..Len(scoreOut.peers) :
            /\ scoreOut.peers[k].similarityScore >= 0
            /\ scoreOut.peers[k].similarityScore <= 100

C20_Witness ==
    /\ scoreOut.called
    /\ Len(scoreOut.peers) = 2
    /\ scoreOut.peers[1].similarityScore = 100
    /\ EmbeddingSimilarityOf(scoreOut.peers[2].marketCap) = Num(-1)
    /\ scoreOut.peers[2].similarityScore = 24

\* C19: a rejected provider call never ends the request with the generic
\* "Internal server error": a rejected price fetch is a null (no data) that the
\* handler answers with the 404 or with "Failed to fetch market index data", a
\* rejected lookup of getPeers is an empty peer list; the generic 500 is sent only
\* for a rejected storage write, after the peers were assembled, or when the
\* formatting of a date of the fetched rows threw, before getPeers was called
C19_ProviderFailureNeverGeneric500 ==
    /\ marketData.st \in {"unset", "null", "rows"}
    /\ stockData.st \in {"unset", "null", "rows"}
    /\ Responded(InternalError) =>
        \/ Entered("Assemble") /\ stored = <<>>
        \/ AlignmentThrew /\ ~Entered("ResolvePeers")
    /\ (pc = "done" /\ req.valid /\ ~SubjectDataExists) => responses = <<SubjectDataMissing>>
    /\ (pc = "done" /\ req.valid /\ SubjectDataExists /\ ~MarketDataExists) =>
            responses = <<NoMarketData>>
    /\ (pc \in {"awaitPeerBetas", "awaitStore"}) => responses = <<>>

\* the first fetch of the subject gave nothing, the recommendation lookup of
\* getPeers threw, and the request ended with the 200 and no peers
C19_Witness ==
    /\ pc = "done"
    /\ Len(subjectFetches) = 2
    /\ subjectFetches[1].result = "nodata"
    /\ gp.pc = "returnedCaught"
    /\ Len(responses) = 1
    /\ responses[1].status = 200
    /\ responses[1].peers = <<>>

\* C23: the index fetch and the subject fetch are started by the same step,
\* before either has settled; while the handler waits, a step settles one call
\* of those in flight and writes the result of that call only, a value that
\* depends on the call's own outcome; the handler goes on only when all have
\* settled and then reads what they wrote, so the order of completion does not
\* show in the data used afterwards
C23_FetchesConcurrentAndIndependent ==
    [][/\ (pc = "idle" /\ pc' = "awaitInitial") =>
            /\ {"market", "stock"} \subseteq pending'
            /\ marketData' = Unset
            /\ stockData' = Unset
       /\ (pc = "awaitInitial" /\ pc' = "awaitInitial") =>
            \E c \in pending :
                /\ pending' = pending \ {c}
                /\ c = "market" => \E o \in MarketOutcomes : marketData' = fetchHistoricalData(o)
                /\ c = "stock" => \E o \in StockOutcomes : stockData' = fetchHistoricalData(o)
                /\ c # "market" => marketData' = marketData
                /\ c # "stock" => stockData' = stockData /\ subjectFetches' = subjectFetches
                /\ c # "quote" => companyName' = companyName
       /\ (pc = "awaitInitial" /\ pc' # "awaitInitial") =>
            /\ pending = {}
            /\ marketData # Unset
            /\ stockData # Unset
            /\ marketData' = marketData
            /\ stockData' = stockData
      ]_vars

\* the subject's fetch has settled with rows while the index fetch is in flight
C23_Witness ==
    /\ pc = "awaitInitial"
    /\ pending = {"market"}
    /\ marketData = Unset
    /\ stockData.st = "rows"

\* what the callback of peer i can return, from its own calls and from what the
\* handler computed before the fan-out
EntriesOf(i) ==
    {PeerEntry(peerSymbols[i], fetchHistoricalData(o),
               FirstName(q.shortName, q.longName, peerSymbols[i].slug), dateMap) :
        o \in PeerOutcomes,
        q \in UNION {QuoteOutcomes(branch[i].fetches[k]) : k \in 1..Len(branch[i].fetches)}}

\* C24: the date-to-close map of the index, the suffix and the index rows are
\* written only before the fan-out starts; during the fan-out a step changes one
\* callback's own state and nothing else, and what a callback returns is made of
\* its own calls, its peer and those read-only inputs, whatever the other
\* callbacks have done by then
C24_BranchesShareOnlyReadOnlyInputs ==
    /\ [][/\ <<dateMap, suffix, marketData>>' # <<dateMap, suffix, marketData>>
                => pc \in {"idle", "awaitInitial", "awaitAlt"}
          /\ pc = "awaitPeerBetas"
                => /\ <<dateMap, suffix, marketData, peerSymbols, fullTicker>>'
                        = <<dateMap, suffix, marketData, peerSymbols, fullTicker>>
                   /\ Cardinality({i \in 1..Len(branch) : branch'[i] # branch[i]}) <= 1
                   /\ Len(branch') = Len(branch)
         ]_vars
    /\ [](pc = "awaitPeerBetas" =>
            \A i \in 1..Len(branch) :
                /\ branch[i].result.st = "entry" => branch[i].result \in EntriesOf(i)
                /\ branch[i].fetches[1] =
                        (IF IncludesDot(peerSymbols[i].slug) THEN peerSymbols[i].slug
                         ELSE WithSuffix(peerSymbols[i].slug, suffix)))

\* two callbacks after the subject was resolved on the alternate exchange: the
\* second has returned its entry while the first waits for its second fetch
C24_Witness ==
    /\ pc = "awaitPeerBetas"
    /\ suffix # OriginalSuffix
    /\ Len(branch) = 2
    /\ branch[1].pc = "await2"
    /\ branch[2].pc = "done"
    /\ branch[2].result.st = "entry"

\* the second identifier line 300 makes of a peer's symbol
AlternateOf(slug) ==
    IF EndsWith(slug, AltSuffix(suffix)) THEN slug ELSE WithSuffix(slug, AltSuffix(suffix))

\* C25: for each peer at most two price fetches are issued: the callback starts
\* with one, a second is added only by the step that settles the first, for the
\* alternate identifier, and the step that settles the second ends the callback,
\* with an entry or with null; a callback that ended issues nothing more
C25_PeerFetchedAtMostTwice ==
    /\ [](\A i \in 1..Len(branch) :
            /\ Len(branch[i].fetches) \in {1, 2}
            /\ branch[i].pc = "await1" => Len(branch[i].fetches) = 1
            /\ branch[i].pc = "await2" =>
                    /\ Len(branch[i].fetches) = 2
                    /\ branch[i].fetches[2] = AlternateOf(peerSymbols[i].slug)
            /\ branch[i].pc \in {"await1", "await2", "done"})
    /\ [][Len(branch) > 0 =>
            /\ Len(branch') = Len(branch)
            /\ \A i \in 1..Len(branch) :
                /\ branch[i].pc = "done" => branch'[i] = branch[i]
                /\ Len(branch'[i].fetches) > Len(branch[i].fetches) =>
                        /\ branch[i].pc = "await1"
                        /\ branch'[i].pc = "await2"
                /\ (branch[i].pc = "await2" /\ branch'[i] # branch[i]) =>
                        /\ branch'[i].pc = "done"
                        /\ branch'[i].fetches = branch[i].fetches
         ]_vars

\* a peer given up after its second fetch, beside a peer that needed one
C25_Witness ==
    /\ pc = "done"
    /\ Len(branch) = 2
    /\ Len(branch[1].fetches) = 2
    /\ branch[1].result = NullEntry
    /\ Len(branch[2].fetches) = 1
    /\ branch[2].result.st = "entry"

\* C26: once the beta and the peer list are complete, the request ends with the
\* response that carries them, whether the storage write succeeds or fails
C26_ResultIndependentOfStorage ==
    (Entered("Assemble") /\ pc = "done") =>
        /\ Len(responses) = 1
        /\ responses[1].status = 200
        /\ responses[1].beta = beta
        /\ responses[1].peers = finalPeers

\* the outcomes of the handler
Outcomes == {ValidationError, SubjectDataMissing, NoMarketData, InsufficientData,
             InternalError}

\* C27: on every path at most one response is sent; a response is sent by the
\* step that ends the handler, and after it no step runs: no lookup of getPeers,
\* no peer fetch, no storage write
C27_OneResponseThenNothing ==
    /\ [](/\ Len(responses) <= 1
          /\ responses # <<>> <=> pc = "done"
          /\ responses # <<>> =>
                \/ responses[1] \in Outcomes
                \/ responses[1].status = 200 /\ Len(stored) = 1)
    /\ [][/\ responses = <<>>
          /\ responses' # <<>> =>
                /\ Len(responses') = 1
                /\ pc' = "done"
                /\ <<gp.pc, branch>>' = <<gp.pc, branch>>
                /\ Len(stored') = (IF responses'[1].status = 200 THEN 1 ELSE 0)
         ]_vars

\* the 404 after the second subject fetch: getPeers was not called, no peer was
\* fetched, nothing was stored
C27_Witness ==
    /\ responses = <<SubjectDataMissing>>
    /\ pc = "done"
    /\ Len(subjectFetches) = 2
    /\ gp.pc = "none"
    /\ branch = <<>>
    /\ stored = <<>>
    /\ stages = <<"FetchSubject">>

\* what the request asked for
RequestedIndex == IF req.exchange = "NSE" THEN <<"^NSEI">> ELSE <<"^BSESN">>
RequestedIndexName == IF req.exchange = "NSE" THEN "NIFTY 50" ELSE "BSE SENSEX"
RequestedTicker ==
    IF EndsWith(req.ticker, OriginalSuffix) THEN req.ticker
    ELSE WithSuffix(req.ticker, OriginalSuffix)
ResolvedThroughAlternate == req.valid /\ suffix # OriginalSuffix

\* C29: the step that resolves the subject through the alternate suffix writes
\* the subject's rows, the company name and the suffix, and leaves the index
\* ticker, the index rows and the subject's ticker as they were; afterwards the
\* alignment is against the rows of the requested exchange's index, and the
\* response and the stored row name that index and the ticker with the
\* requested exchange's suffix
C29_AlternateLeavesBenchmarkAndTicker ==
    /\ [][pc = "awaitAlt" =>
            /\ <<req, marketTicker, fullTicker, marketData, marketFetches>>'
                    = <<req, marketTicker, fullTicker, marketData, marketFetches>>
            /\ suffix' # suffix =>
                    /\ suffix' = AltSuffix(suffix)
                    /\ stockData'.st = "rows"
         ]_vars
    /\ [](ResolvedThroughAlternate =>
            /\ suffix = AltSuffix(OriginalSuffix)
            /\ marketTicker = RequestedIndex
            /\ marketFetches = <<RequestedIndex>>
            /\ fullTicker = RequestedTicker
            /\ SubjectComputed => dateMap = BuildDateMap(marketData.rows)
            /\ \A i \in 1..Len(branch) :
                    ~IncludesDot(peerSymbols[i].slug)
                    => branch[i].fetches[1] = WithSuffix(peerSymbols[i].slug, suffix)
            /\ (pc = "done" /\ responses[1].status = 200) =>
                    /\ responses[1].ticker = RequestedTicker
                    /\ responses[1].marketIndex = RequestedIndexName
                    /\ responses[1].name = companyName
                    /\ stored[1].ticker = RequestedTicker
                    /\ stored[1].exchange = req.exchange)

\* a request for the NSE answered with rows of the BSE listing: the response
\* names TCS.NS and the NIFTY 50, the peer without a suffix was fetched as .BO
C29_Witness ==
    /\ pc = "done"
    /\ req.exchange = "NSE"
    /\ suffix = ".BO"
    /\ responses[1].status = 200
    /\ responses[1].ticker = <<"TCS", ".NS">>
    /\ responses[1].marketIndex = "NIFTY 50"
    /\ marketTicker = <<"^NSEI">>
    /\ \E i \in 1..Len(branch) : branch[i].fetches[1] = <<"WIPRO", ".BO">>

\* C30: when every call settles, a request that was received ends: a response
\* is sent and the handler is done, whatever calls failed and however many peers
\* were recommended
C30_EveryRequestEnds ==
    (pc # "idle") ~> (pc = "done" /\ Len(responses) = 1)

\* the longest run: both subject fetches, every lookup of getPeers, two fetches
\* for each of the peers, the storage write, the response
C30_Witness ==
    /\ pc = "done"
    /\ Len(subjectFetches) = 2
    /\ stages = StageOrder
    /\ Len(branch) >= 2
    /\ \A i \in 1..Len(branch) : Len(branch[i].fetches) = 2
    /\ Len(stored) = 1

-----------------------------------------------------------------------------
(* Properties of the fan-out (SpecFanOut) *)

\* the callbacks that returned an entry, and the k-th of them in the order of
\* the list getPeers returned
WithEntry == {i \in 1..Len(branch) : branch[i].result.st = "entry"}
NthWithEntry(k) == CHOOSE i \in WithEntry : Cardinality({h \in WithEntry : h <= i}) = k

\* C28: the peer list of the response is made of the peers getPeers returned
\* whose callback gave an entry, in the order of getPeers' list, whatever the
\* order in which the callbacks settled; it is no longer than that list, so it
\* has 5 entries at most
C28_ResponsePeersKeepRanking ==
    /\ Len(peerSymbols) <= TopPeers
    /\ Entered("Assemble") =>
        /\ Len(finalPeers) = Cardinality(WithEntry)
        /\ Len(finalPeers) <= Len(peerSymbols)
        /\ \A k \in 1..Len(finalPeers) :
                /\ finalPeers[k] = branch[NthWithEntry(k)].result
                /\ finalPeers[k].ticker = peerSymbols[NthWithEntry(k)].slug
        /\ \A k, l \in 1..Len(finalPeers) : k < l => NthWithEntry(k) < NthWithEntry(l)
    /\ (pc = "done" /\ responses[1].status = 200) => responses[1].peers = finalPeers

\* the callback of the second peer settled before the one of the first; the
\* response lists the first peer first
C28_Witness ==
    /\ pc = "done"
    /\ responses[1].status = 200
    /\ calls.settled = <<2, 1>>
    /\ Len(responses[1].peers) = 2
    /\ responses[1].peers[1].ticker = peerSymbols[1].slug
    /\ responses[1].peers[2].ticker = peerSymbols[2].slug

-----------------------------------------------------------------------------
(* Properties of getPeers under failing calls (SpecPeers) *)

\* positions of the recommended symbols whose own profile lookup gave a
\* description and that are not the symbol asked about
KeptPositions ==
    {i \in 1..Len(calls.recSymbols) :
        calls.summaries[i] = "ok" /\ calls.recSymbols[i] # fullTicker}

NthKept(j) == CHOOSE i \in KeptPositions : Cardinality({h \in KeptPositions : h <= i}) = j

\* the candidates whose own embedding call succeeded
EmbeddedCandidates == {j \in 1..Len(calls.candidates) : calls.embOk[j]}

Occurrences(seq, slug) == Cardinality({m \in 1..Len(seq) : seq[m].slug = slug})

\* the length slice(0, 5) leaves of n entries
AtMostTopPeers(n) == IF n < TopPeers THEN n ELSE TopPeers

\* getPeers has returned to the handler
GetPeersReturned == pc = "awaitPeerBetas"

\* a call on which every candidate depends has failed or given nothing
NothingToRank ==
    \/ calls.profile # "ok"
    \/ calls.baseEmbedding = "failed"
    \/ calls.recommendations = "failed"
    \/ calls.recommendations = "ok" /\ calls.recSymbols = <<>>

\* C18: whatever external call of getPeers fails, getPeers returns a list and the
\* handler goes on to the peer betas without an error response; a failure of the
\* subject's profile lookup, of its embedding call or of the recommendation
\* lookup gives the empty list; a failed keyword call ends nothing and drops
\* nobody; a failed profile lookup or embedding call of one candidate drops that
\* candidate alone, every other candidate is returned
C18_FailuresCaughtLocally ==
    /\ responses = <<>>
    /\ pc \in {"awaitGetPeers", "awaitPeerBetas"}
    /\ (GetPeersReturned /\ ~calls.scored) => (peerSymbols = <<>> /\ NothingToRank)
    /\ (~GetPeersReturned /\ calls.baseEmbedding = "ok") =>
            gp.pc \in {"recs", "recSummaries", "score"}
    /\ gp.pc = "score" =>
        /\ Len(gp.peerCandidates) = Cardinality(KeptPositions)
        /\ \A j \in 1..Len(gp.peerCandidates) :
                gp.peerCandidates[j].slug = calls.recSymbols[NthKept(j)]
    /\ calls.scored =>
        /\ GetPeersReturned
        /\ Len(peerSymbols) = AtMostTopPeers(Cardinality(EmbeddedCandidates))
        /\ \A m \in 1..Len(peerSymbols) :
                Occurrences(peerSymbols, peerSymbols[m].slug) <=
                    Cardinality({j \in EmbeddedCandidates :
                                    calls.candidates[j].slug = peerSymbols[m].slug})
        /\ Cardinality(EmbeddedCandidates) <= TopPeers =>
                \A j \in EmbeddedCandidates :
                    \E m \in 1..Len(peerSymbols) :
                        peerSymbols[m].slug = calls.candidates[j].slug

\* two candidates, the embedding call of the first and the keyword call of the
\* second failed: the second alone is returned, without keywords
C18_Witness ==
    /\ calls.scored
    /\ Len(calls.candidates) = 2
    /\ calls.embOk = <<FALSE, TRUE>>
    /\ calls.kwOk = <<TRUE, FALSE>>
    /\ calls.baseKeywords = "failed"
    /\ Len(peerSymbols) = 1
    /\ peerSymbols[1].slug = calls.candidates[2].slug
    /\ peerSymbols[1].keywords = <<>>

-----------------------------------------------------------------------------
(* Properties of the older getPeers (SpecTiers) *)

\* the filters of lines 472-478 have run
TiersRan == tiered.pc = "returned" /\ tiered.tiers # <<>>
TierUsed(t) == \E m \in 1..Len(tiered.tiers) : tiered.tiers[m] = t
TimesUsed(t) == Cardinality({m \in 1..Len(tiered.tiers) : tiered.tiers[m] = t})

\* the valid peers of the subject's industry, and of its sector
OfTargetIndustry ==
    {j \in 1..Len(tiered.validPeers) :
        /\ tiered.validPeers[j].industry \notin {Undefined, ""}
        /\ tiered.validPeers[j].industry = tiered.targetIndustry}
OfTargetSector ==
    {j \in 1..Len(tiered.validPeers) :
        /\ tiered.validPeers[j].sector \notin {Undefined, ""}
        /\ tiered.validPeers[j].sector = tiered.targetSector}

\* C15: when the industry filter and the sector filter both leave no candidate,
\* the fallback on the scraped table is invoked exactly once, no filter is
\* applied twice, and getPeers returns
C15_ScrapeFallbackOnce ==
    (TiersRan /\ OfTargetIndustry = {} /\ OfTargetSector = {}) =>
        /\ TimesUsed("scrape") = 1
        /\ TimesUsed("industry") = 1
        /\ TimesUsed("sector") = 1

\* C16 as stated, with the minimum of three: the sector filter is used exactly
\* when the industry filter left fewer than three candidates
C16_SectorTierBelowThree ==
    TiersRan =>
        /\ tiered.tiers[1] = "industry"
        /\ TierUsed("sector") <=> Cardinality(OfTargetIndustry) < 3
        /\ ~TierUsed("sector") =>
                \A m \in 1..Len(tiered.peers) : tiered.peers[m].sector[3] = tiered.targetIndustry

\* C16: the industry filter is applied first; the sector filter is used exactly
\* when the industry filter left no candidate, and then every returned peer is
\* of the subject's sector; otherwise every returned peer is of the subject's
\* industry exactly
C16_SectorTierWhenNoIndustryMatch ==
    TiersRan =>
        /\ tiered.tiers[1] = "industry"
        /\ TierUsed("sector") <=> OfTargetIndustry = {}
        /\ ~TierUsed("sector") =>
                /\ Len(tiered.peers) = AtMostTopPeers(Cardinality(OfTargetIndustry))
                /\ \A m \in 1..Len(tiered.peers) :
                        tiered.peers[m].sector[3] = tiered.targetIndustry
        /\ TierUsed("sector") =>
                /\ Len(tiered.peers) = AtMostTopPeers(Cardinality(OfTargetSector))
                /\ \A m \in 1..Len(tiered.peers) :
                        tiered.peers[m].sector[1] = tiered.targetSector

\* four valid peers, two of the subject's industry and two more of its sector
\* alone: the two of the industry are returned, the sector filter is not used
C16_Witness ==
    /\ TiersRan
    /\ Len(tiered.validPeers) = 4
    /\ Cardinality(OfTargetIndustry) = 2
    /\ Cardinality(OfTargetSector) = 4
    /\ tiered.tiers = <<"industry">>
    /\ Len(tiered.peers) = 2

-----------------------------------------------------------------------------
(* Properties of the keyword overlap (SpecOverlap) *)

OverlapCalled == kw.pc = "done"
KeywordSet(keywords) == {keywords[i] : i \in 1..Len(keywords)}

\* C21: the overlap is the number of distinct keywords the two lists share, each
\* counted once however often it is repeated in either list, over the 5 keywords
\* of a list, times 100; it is 0 when either list is empty
C21_OverlapIsSetIntersection ==
    OverlapCalled =>
        kw.overlap =
            IF kw.keywordsA = <<>> \/ kw.keywordsB = <<>> THEN Zero
            ELSE RMul(RDiv(Num(Cardinality(KeywordSet(kw.keywordsA)
                                           \cap KeywordSet(kw.keywordsB))),
                           Num(5)),
                      Num(100))

=============================================================================
